---- MODULE Spec2Model ----
(***************************************************************************)
(* A model of the audio processing core of Big Wiz Auto Mix:               *)
(*   - MacroProcessor       (macro sliders -> DSP parameter sets)          *)
(*   - EffectChain          (the Web Audio graph built per stem)           *)
(*   - PreviewEngine / AudioEffectsEngine (playback with effect chains)    *)
(*   - AudioManager         (plain stem playback)                          *)
(*   - SidechainDucker      (envelope follower driven gain reduction)      *)
(*   - MaskingAnalyzer      (cross-stem masking heat map)                  *)
(* Each component has its own variables, initial condition, actions and    *)
(* specification; the variables of the other components stay at rest.      *)
(*                                                                         *)
(* Numbers.  The program computes with IEEE doubles.  dB, ratio, ms, Q and *)
(* percent values are modelled as exact fixed-point integers with          *)
(* denominator Scale; macro slider values and frequencies are integers.    *)
(***************************************************************************)
EXTENDS Integers, Sequences, FiniteSets, TLC

\* MacroProcessor: one call of the mapper
VARIABLES
    mpSettings,   \* the MixerSettings argument
    mpRole,       \* the StemRole argument, or NoRole
    mpCall,       \* which mapper entry point has been called ("none" before)
    mpResult      \* the MacroProcessingResult it returned

macroVars == <<mpSettings, mpRole, mpCall, mpResult>>

\* EffectChain: one chain object
VARIABLES
    ecInput,    \* the MacroProcessingResult given to the constructor
    ecState,    \* "none" (not constructed), "built" or "disposed"
    ecEdges     \* the connections of the chain's graph

chainVars == <<ecInput, ecState, ecEdges>>

\* EffectChain.createSaturationCurve: one run of its sampling loop
VARIABLES
    scDrive,      \* the drive argument (fixed point, denominator CurveScale)
    scCharacter,  \* the character argument
    scNext,       \* how many of the model's sample points have been computed
    scCurve       \* the curve so far: sample index -> y (fixed point)

curveVars == <<scDrive, scCharacter, scNext, scCurve>>

\* MaskingAnalyzer: the spectra of the mix and one analyze() call
VARIABLES
    maSpectra,    \* stem -> (frequency bin -> spectral energy) of the mix
    maCalled,     \* whether analyze() has returned
    maResult      \* the MaskingHeatmap it returned

maskVars == <<maSpectra, maCalled, maResult>>

\* SidechainDucker with its EnvelopeFollower.  Gains, levels and the
\* assistant value are in hundredths (100 = 1.0).
VARIABLES
    dkEnabled,      \* settings.enabled
    dkAssistant,    \* settings.assistantValue
    dkSource,       \* sourceStemNode is not null
    dkTarget,       \* targetStemNode is not null
    dkIsActive,     \* isActive
    dkCallback,     \* envelopeFollower.onLevelChange is not null
    dkSensitivity,  \* envelopeFollower.sensitivity
    dkTimer,        \* envelopeFollower.updateInterval is set (timer running)
    dkGainTarget,   \* target of the last setTargetAtTime on the target's gain
    dkGain,         \* the current value of the target's gain
    dkRestoring,    \* history: disable() was called on an active ducker and
                    \* neither enable() nor a reconnection has followed
    dkLevel,        \* history: the level of the last onLevelChange(level) call
    dkCalls         \* history: flips at every call of onLevelChange

\* What only a call of onLevelChange changes.
tickVars == <<dkLevel, dkCalls>>

duckVars == <<dkEnabled, dkAssistant, dkSource, dkTarget, dkIsActive,
              dkCallback, dkSensitivity, dkTimer, dkGainTarget, dkGain,
              dkRestoring, dkLevel, dkCalls>>

\* PreviewEngine with its AudioEffectsEngine
VARIABLES
    peStemBuffers,   \* the keys of stemBuffers (stems iterate in id order)
    peLoadQueue,     \* loadStems in progress: the stems still to be fetched
    peIsPlaying,     \* isPlaying
    peSourceNodes,   \* the keys of sourceNodes
    peEffectChains,  \* effectsEngine.effectChains: stem -> state of the chain
    pePendingEnded,  \* stem -> stopped source nodes whose 'ended' event is due
    peLastCall       \* history: the call that returned last

previewVars == <<peStemBuffers, peLoadQueue, peIsPlaying, peSourceNodes,
                 peEffectChains, pePendingEnded, peLastCall>>

\* AudioManager
VARIABLES
    amBuffers,       \* the keys of buffers
    amGainNodes,     \* the keys of gainNodes
    amStemStates,    \* the keys of stemStates
    amSources,       \* the keys of sources
    amIsPlaying,     \* isPlaying
    amLoading,       \* the ids with a loadAudioFile suspended at an await
    amPlayPending,   \* the play() calls suspended at their await
    amLastCall,      \* history: the call that returned last
    amUntracked      \* per stem: the sources started, not stopped, and no
                     \* longer held by sources

managerVars == <<amBuffers, amGainNodes, amStemStates, amSources, amIsPlaying,
                 amLoading, amPlayPending, amLastCall, amUntracked>>

\* StemAnalyzer: the role classifier
VARIABLES
    saFeatures,      \* the AudioFeatures under classification
    saCall,          \* "none" before, "classified" after the classification
    saRole,          \* the result of detectRole
    saConfidence     \* the result of calculateConfidence

classifierVars == <<saFeatures, saCall, saRole, saConfidence>>

\* StemAnalyzer.analyzeStems
VARIABLES
    asStems,         \* the audioBuffers argument
    asNext,          \* the position of the for loop in audioBuffers
    asResults        \* the results array

analyzeVars == <<asStems, asNext, asResults>>

\* MacroProcessor on the heap: the objects its calls create, for the claims
\* about aliasing between calls
VARIABLES
    mhHeap,       \* address -> object; address 1 is the caller's settings
    mhEntry,      \* the entry point the caller uses
    mhRole,       \* the role argument of every call
    mhOriginal,   \* history: the settings object's value before the first call
    mhResults,    \* the references the calls returned, in call order
    mhWritten     \* history: the calls whose result the caller wrote to

heapVars == <<mhHeap, mhEntry, mhRole, mhOriginal, mhResults, mhWritten>>

\* TransientShaper with its EnvelopeFollower.  Levels and the follower's
\* sensitivity are in hundredths (100 = 1.0).
VARIABLES
    tsParameters,   \* parameters: attack, sustain, sensitivity
    tsSensitivity,  \* envelopeFollower.sensitivity
    tsActivity,     \* envelopeFollower.activity
    tsProcessed,    \* the processor whose processTransient ran last
    tsDisposed,     \* history: dispose() has been called
    tsLoopRuns,     \* history: flips at every iteration of the detection loop
    tsDetected      \* history: flips at every call of onTransientDetected

shaperVars == <<tsParameters, tsSensitivity, tsActivity, tsProcessed,
                tsDisposed, tsLoopRuns, tsDetected>>

\* StemAnalyzer.extractAudioFeatures: the energy distribution of one buffer
VARIABLES
    edBuffer,     \* the AudioBuffer: sampleRate and the samples of channel 0
    edWindow,     \* w, the position of the window loop
    edEnergy,     \* energyDistribution
    edDone        \* the averaging after the loop has run

energyVars == <<edBuffer, edWindow, edEnergy, edDone>>

\* HarmonicExciter with its three HarmonicBandProcessors
VARIABLES
    heParameters,   \* parameters: the drives, harmonic types and character
    heContent,      \* band -> harmonicContent of its processor
    heCurve         \* band -> saturationNode.curve of its processor

exciterVars == <<heParameters, heContent, heCurve>>

\* ProcessingChainManager: the chain field and the outcome of the last call.
VARIABLES
    pcChain,         \* chain: Undefined, or the modules and globalSettings
    pcThrown,        \* the exception the last call threw, "none" if it returned
    pcLastCall,      \* history: the call made last and its slot index
    pcSavedModules,  \* history: per slot, chain.modules at the last
                     \* saveSnapshot into the present chain
    pcOps            \* the number of method calls made on this manager

snapshotVars == <<pcChain, pcThrown, pcLastCall, pcSavedModules, pcOps>>

vars == <<macroVars, chainVars, curveVars, maskVars, duckVars, previewVars,
          managerVars, classifierVars, analyzeVars,
                heapVars,
                shaperVars,
                energyVars,
                exciterVars,
                snapshotVars>>

\* What the actions of one component leave alone: the other components.
MacroFrame == UNCHANGED <<chainVars, curveVars, maskVars, duckVars, previewVars,
                           managerVars, classifierVars, analyzeVars,
                heapVars,
                shaperVars,
                energyVars,
                exciterVars,
                snapshotVars>>

ChainFrame == UNCHANGED <<macroVars, curveVars, maskVars, duckVars, previewVars,
                           managerVars, classifierVars, analyzeVars,
                heapVars,
                shaperVars,
                energyVars,
                exciterVars,
                snapshotVars>>

CurveFrame == UNCHANGED <<macroVars, chainVars, maskVars, duckVars, previewVars,
                           managerVars, classifierVars, analyzeVars,
                heapVars,
                shaperVars,
                energyVars,
                exciterVars,
                snapshotVars>>

MaskFrame == UNCHANGED <<macroVars, chainVars, curveVars, duckVars, previewVars,
                          managerVars, classifierVars, analyzeVars,
                heapVars,
                shaperVars,
                energyVars,
                exciterVars,
                snapshotVars>>

DuckFrame == UNCHANGED <<macroVars, chainVars, curveVars, maskVars, previewVars,
                          managerVars, classifierVars, analyzeVars,
                heapVars,
                shaperVars,
                energyVars,
                exciterVars,
                snapshotVars>>

\* The PreviewEngine (of the ControlPanel) and the AudioManager (of the App)
\* are separate objects that share no state, so the steps of one neither
\* enable nor change the steps of the other.  The playback specification
\* therefore explores each engine while the other holds the state its
\* constructor left, which keeps the state space near the sum of the two
\* engines' rather than their product.
ManagerAtRest ==
    /\ amBuffers = {} /\ amGainNodes = {} /\ amStemStates = {} /\ amSources = {}
    /\ amIsPlaying = FALSE /\ amLoading = {} /\ amPlayPending = 0
    /\ \A id \in DOMAIN amUntracked : amUntracked[id] = 0

PreviewAtRest ==
    /\ peStemBuffers = {} /\ peLoadQueue = <<>> /\ peIsPlaying = FALSE
    /\ peSourceNodes = {}
    /\ \A s \in DOMAIN peEffectChains : peEffectChains[s] = "none"
    /\ \A s \in DOMAIN pePendingEnded : pePendingEnded[s] = 0

PreviewFrame ==
    /\ ManagerAtRest
    /\ UNCHANGED <<macroVars, chainVars, curveVars, maskVars, duckVars,
                   managerVars, classifierVars, analyzeVars,
                heapVars,
                shaperVars,
                energyVars,
                exciterVars,
                snapshotVars>>

ManagerFrame ==
    /\ PreviewAtRest
    /\ UNCHANGED <<macroVars, chainVars, curveVars, maskVars, duckVars,
                   previewVars, classifierVars, analyzeVars,
                heapVars,
                shaperVars,
                energyVars,
                exciterVars,
                snapshotVars>>

ClassifierFrame ==
    UNCHANGED <<macroVars, chainVars, curveVars, maskVars, duckVars,
                previewVars, managerVars, analyzeVars,
                heapVars,
                shaperVars,
                energyVars,
                exciterVars,
                snapshotVars>>

AnalyzeFrame ==
    UNCHANGED <<macroVars, chainVars, curveVars, maskVars, duckVars,
                previewVars, managerVars, classifierVars,
                heapVars,
                shaperVars,
                energyVars,
                exciterVars,
                snapshotVars>>

\* Fixed-point denominator: a multiple of every divisor mapRange is called
\* with (100, 50, 70, 60) and of 10 (one decimal place in the literals).
Scale == 2100 * 10

\* The number n/d in fixed point.
Num(n, d) == (n * Scale) \div d

Max(a, b) == IF a >= b THEN a ELSE b

Min(a, b) == IF a <= b THEN a ELSE b

(***************************************************************************)
(* MacroProcessor                                                          *)
(***************************************************************************)

\* StemRole; NoRole stands for an omitted (undefined) role argument.
NoRole == "undefined"

StemRoles ==
    {"kick", "snare", "hihat", "drums", "percussion", "bass", "lead", "pad",
     "arpeggio", "vocal", "harmony", "fx", "other"}

isPercussive(role) ==
    role \in {"kick", "snare", "drums", "percussion", "hihat"}

\* mapRange with outMin and outMax exchanged.
mapRange_Swapped(value, inMin, inMax, outMin, outMax) ==
    outMax + ((value - inMin) * (outMin - outMax)) \div (inMax - inMin)

\* outMin + (value - inMin) * (outMax - outMin) / (inMax - inMin); value,
\* inMin, inMax are plain integers, outMin and outMax fixed point.  There is
\* no clamping of value to [inMin, inMax].
mapRange(value, inMin, inMax, outMin, outMax) ==
    outMin + ((value - inMin) * (outMax - outMin)) \div (inMax - inMin)

getDefaultCompression ==
    [threshold |-> 0, ratio |-> Num(1, 1), attack |-> Num(30, 1),
     release |-> Num(100, 1), makeupGain |-> 0, enabled |-> FALSE]

getDefaultSaturation ==
    [drive |-> 0, character |-> "tube", mix |-> 0, enabled |-> FALSE]

getDefaultStereoWidth ==
    [width |-> Num(100, 1), bassMonoFreq |-> 120, sideLowCut |-> 100,
     enabled |-> FALSE]

getDefaultLimiter ==
    [ceiling |-> Num(-1, 10), release |-> Num(50, 1), lookahead |-> Num(5, 1),
     enabled |-> TRUE]

EQBand(frequency, gain, q, type, enabled) ==
    [frequency |-> frequency, gain |-> gain, q |-> q, type |-> type,
     enabled |-> enabled]

\* The clarity rule without the mud cut at 350 Hz.
ClarityBands_ShelfOnly(settings) ==
    IF settings.clarity > 0
    THEN <<EQBand(8000, mapRange(settings.clarity, 0, 100, 0, Num(4, 1)),
                  Num(7, 10), "highshelf", TRUE)>>
    ELSE <<>>

\* 1) CLARITY
ClarityBands(settings) ==
    IF settings.clarity > 0
    THEN <<EQBand(8000, mapRange(settings.clarity, 0, 100, 0, Num(4, 1)),
                  Num(7, 10), "highshelf", TRUE)>>
         \o (IF settings.clarity > 50
             THEN <<EQBand(350, mapRange(settings.clarity, 50, 100, 0, Num(-2, 1)),
                           Num(12, 10), "bell", TRUE)>>
             ELSE <<>>)
    ELSE <<>>

\* 2) PUNCH
PunchCompression(settings, stemRole) ==
    IF settings.punch > 0
    THEN [threshold  |-> mapRange(settings.punch, 0, 100, Num(-3, 1), Num(-15, 1)),
          ratio      |-> mapRange(settings.punch, 0, 100, Num(13, 10), Num(21, 10)),
          attack     |-> IF isPercussive(stemRole)
                         THEN mapRange(settings.punch, 0, 100, Num(30, 1), Num(10, 1))
                         ELSE mapRange(settings.punch, 0, 100, Num(30, 1), Num(15, 1)),
          release    |-> mapRange(settings.punch, 0, 100, Num(50, 1), Num(150, 1)),
          makeupGain |-> mapRange(settings.punch, 0, 100, 0, Num(3, 1)),
          enabled    |-> settings.punch > 5]
    ELSE getDefaultCompression

\* 3) WARMTH
WarmthBands(settings) ==
    IF settings.warmth > 0
    THEN <<EQBand(160, mapRange(settings.warmth, 0, 100, 0, Num(2, 1)),
                  Num(7, 10), "lowshelf", TRUE),
           EQBand(4000, mapRange(settings.warmth, 0, 100, 0, Num(-3, 1)),
                  Num(1, 1), "bell", TRUE)>>
    ELSE <<>>

WarmthSaturation(settings) ==
    IF settings.warmth > 0
    THEN [drive     |-> mapRange(settings.warmth, 0, 100, 0, Num(2, 1)),
          character |-> "tube",
          mix       |-> mapRange(settings.warmth, 0, 100, 0, Num(25, 1)),
          enabled   |-> settings.warmth > 10]
    ELSE getDefaultSaturation

\* 4) WIDTH
WidthStereo(settings) ==
    IF settings.width # 0
    THEN [width |-> mapRange(settings.width, 0, 100, Num(50, 1), Num(150, 1)),
          bassMonoFreq |-> 120, sideLowCut |-> 100, enabled |-> TRUE]
    ELSE getDefaultStereoWidth

\* The air rule without its guard: the shelf is pushed for air = 0 too.
AirBands_Always(settings) ==
    <<EQBand(14000, mapRange(settings.air, 0, 100, 0, Num(3, 1)),
             Num(5, 10), "highshelf", TRUE)>>

\* 5) AIR
AirBands(settings) ==
    IF settings.air # 0
    THEN <<EQBand(14000, mapRange(settings.air, 0, 100, 0, Num(3, 1)),
                  Num(5, 10), "highshelf", TRUE)>>
    ELSE <<>>

\* The glue rule without its compressor minima.
GlueCompression_None(settings, compression) == compression

\* 6) GLUE, applied to the compression and saturation set by 2) and 3)
GlueCompression(settings, compression) ==
    IF settings.punch > 0
    THEN [compression EXCEPT !.attack = Max(@, Num(20, 1)),
                             !.release = Max(@, Num(100, 1))]
    ELSE compression

GlueSaturation(settings, saturation) ==
    IF settings.punch > 0
    THEN [saturation EXCEPT !.drive = Max(@, Num(5, 10)),
                            !.character = "tape"]
    ELSE saturation

processSettingsToChain(settings, stemRole) ==
    [eqCurve         |-> ClarityBands(settings) \o WarmthBands(settings)
                         \o AirBands(settings),
     compression     |-> GlueCompression(settings,
                             PunchCompression(settings, stemRole)),
     saturation      |-> GlueSaturation(settings, WarmthSaturation(settings)),
     stereoWidth     |-> WidthStereo(settings),
     limiterSettings |-> getDefaultLimiter,
     reverbSend      |-> settings.reverb]

\* enhanceForKick without the compression override (eq bands only).
enhanceForKick_NoOverride(chain, settings) ==
    [chain EXCEPT
       !.eqCurve =
           <<EQBand(60, mapRange(settings.punch, 0, 100, 0, Num(2, 1)),
                    Num(1, 1), "bell", TRUE)>>
           \o @
           \o (IF settings.clarity > 50
               THEN <<EQBand(4000,
                             mapRange(settings.clarity, 50, 100, 0, Num(15, 10)),
                             Num(15, 10), "bell", TRUE)>>
               ELSE <<>>)]

enhanceForKick(chain, settings) ==
    [chain EXCEPT
       !.eqCurve =
           <<EQBand(60, mapRange(settings.punch, 0, 100, 0, Num(2, 1)),
                    Num(1, 1), "bell", TRUE)>>
           \o @
           \o (IF settings.clarity > 50
               THEN <<EQBand(4000,
                             mapRange(settings.clarity, 50, 100, 0, Num(15, 10)),
                             Num(15, 10), "bell", TRUE)>>
               ELSE <<>>),
       !.compression.attack = Min(@, Num(5, 1)),
       !.compression.ratio = Max(@, Num(3, 1))]

enhanceForSnare(chain, settings) ==
    [chain EXCEPT
       !.eqCurve =
           <<EQBand(250, mapRange(settings.punch, 0, 100, 0, Num(2, 1)),
                    Num(12, 10), "bell", TRUE)>>
           \o @
           \o (IF settings.clarity > 30
               THEN <<EQBand(5000,
                             mapRange(settings.clarity, 30, 100, 0, Num(3, 1)),
                             Num(2, 1), "bell", TRUE)>>
               ELSE <<>>)]

\* enhanceForBass without the mono-safe width clamp.
enhanceForBass_NoClamp(chain, settings) ==
    [chain EXCEPT
       !.eqCurve =
           <<EQBand(100, mapRange(settings.warmth, 0, 100, 0, Num(2, 1)),
                    Num(1, 1), "bell", TRUE)>>
           \o @
           \o (IF settings.clarity > 40
               THEN <<EQBand(800,
                             mapRange(settings.clarity, 40, 100, 0, Num(15, 10)),
                             Num(1, 1), "bell", TRUE)>>
               ELSE <<>>)]

enhanceForBass(chain, settings) ==
    [chain EXCEPT
       !.stereoWidth.width = Min(@, Num(100, 1)),
       !.eqCurve =
           <<EQBand(100, mapRange(settings.warmth, 0, 100, 0, Num(2, 1)),
                    Num(1, 1), "bell", TRUE)>>
           \o @
           \o (IF settings.clarity > 40
               THEN <<EQBand(800,
                             mapRange(settings.clarity, 40, 100, 0, Num(15, 10)),
                             Num(1, 1), "bell", TRUE)>>
               ELSE <<>>)]

enhanceForVocal(chain, settings) ==
    [chain EXCEPT
       !.eqCurve =
           <<EQBand(3000, mapRange(settings.clarity, 0, 100, 0, Num(3, 1)),
                    Num(12, 10), "bell", settings.clarity > 20)>>
           \o @
           \o (IF settings.clarity > 70
               THEN <<EQBand(7000, Num(-15, 10), Num(2, 1), "bell", TRUE)>>
               ELSE <<>>),
       !.compression.threshold = Max(@, Num(-12, 1)),
       !.compression.ratio = Min(@, Num(3, 1)),
       !.compression.attack = Max(@, Num(5, 1))]

\* enhanceForDrums whose cymbal band replaces the last band of the chain.
enhanceForDrums_ReplaceLast(chain, settings) ==
    [chain EXCEPT
       !.compression.attack =
           IF settings.punch > 50 THEN Min(@, Num(3, 1)) ELSE @,
       !.eqCurve =
           IF settings.air > 60
           THEN SubSeq(@, 1, Len(@) - 1)
                \o <<EQBand(10000, Num(-1, 1), Num(15, 10), "bell", TRUE)>>
           ELSE @]

enhanceForDrums(chain, settings) ==
    [chain EXCEPT
       !.compression.attack =
           IF settings.punch > 50 THEN Min(@, Num(3, 1)) ELSE @,
       !.eqCurve =
           @ \o (IF settings.air > 60
                 THEN <<EQBand(10000, Num(-1, 1), Num(15, 10), "bell", TRUE)>>
                 ELSE <<>>)]

getPerRoleChain(role, settings) ==
    LET baseChain == processSettingsToChain(settings, role)
    IN  CASE role = "kick" -> enhanceForKick(baseChain, settings)
          [] role = "snare" -> enhanceForSnare(baseChain, settings)
          [] role = "bass" -> enhanceForBass(baseChain, settings)
          [] role \in {"vocal", "lead"} -> enhanceForVocal(baseChain, settings)
          [] role = "drums" -> enhanceForDrums(baseChain, settings)
          [] OTHER -> baseChain

\* PreviewEngine.getDefaultSettings: the all-neutral settings.
getDefaultSettings ==
    [previewLUFS |-> Num(-18, 1), streamLUFS |-> Num(-14, 1),
     peakCeiling |-> Num(-1, 1), punch |-> 0, warmth |-> 0, clarity |-> 0,
     air |-> 0, width |-> 0, reverb |-> 0]

\* How far outside the slider range [0,100] the macro inputs of the model go.
OverRange == 20

PunchInputs == {0 - OverRange, 0, 4, 75, 100, 100 + OverRange}

WarmthInputs == {0 - OverRange, 0, 4, 60, 100 + OverRange}

ClarityInputs == {0 - OverRange, 0, 25, 45, 60, 100, 100 + OverRange}

AirInputs == {0 - OverRange, 0, 75, 100 + OverRange}

WidthInputs == {0 - OverRange, 0, 50, 100, 100 + OverRange}

ReverbInputs == {0, 40}

SettingsInputs ==
    {[getDefaultSettings EXCEPT !.punch = p, !.warmth = w, !.clarity = c,
                                !.air = a, !.width = wd, !.reverb = r] :
        p \in PunchInputs, w \in WarmthInputs, c \in ClarityInputs,
        a \in AirInputs, wd \in WidthInputs, r \in ReverbInputs}

RoleInputs == StemRoles \cup {NoRole}

MacroInit ==
    /\ mpSettings \in SettingsInputs
    /\ mpRole \in RoleInputs
    /\ mpCall = "none"
    /\ mpResult = processSettingsToChain(getDefaultSettings, NoRole)

MacroIdle ==
    /\ mpSettings = getDefaultSettings
    /\ mpRole = NoRole
    /\ mpCall = "none"
    /\ mpResult = processSettingsToChain(getDefaultSettings, NoRole)

CallProcessSettingsToChain ==
    /\ mpCall = "none"
    /\ mpCall' = "processSettingsToChain"
    /\ mpResult' = processSettingsToChain(mpSettings, mpRole)
    /\ UNCHANGED <<mpSettings, mpRole>>
    /\ MacroFrame

CallGetPerRoleChain ==
    /\ mpCall = "none"
    /\ mpRole # NoRole
    /\ mpCall' = "getPerRoleChain"
    /\ mpResult' = getPerRoleChain(mpRole, mpSettings)
    /\ UNCHANGED <<mpSettings, mpRole>>
    /\ MacroFrame

MacroNext == CallProcessSettingsToChain \/ CallGetPerRoleChain

(***************************************************************************)
(* MacroProcessor, object identity.  Every object literal and array        *)
(* literal of the mapper creates a new object; a MacroProcessingResult is  *)
(* a root object that refers to its eqCurve array (which refers to its     *)
(* bands), compression, saturation, stereoWidth and limiterSettings.  The  *)
(* values stored are those processSettingsToChain / getPerRoleChain        *)
(* compute; the enhancers write to the objects of the base chain they are  *)
(* given and return that chain.                                            *)
(***************************************************************************)

\* A factory that hands out one cached object per value instead of a new one.
newObject_Interned(heap, value) ==
    IF \E a \in 1..Len(heap) : heap[a] = value
    THEN [heap |-> heap,
          ref  |-> CHOOSE a \in 1..Len(heap) : heap[a] = value]
    ELSE [heap |-> Append(heap, value), ref |-> Len(heap) + 1]

\* An object literal: a new object at a new address.
newObject(heap, value) ==
    [heap |-> Append(heap, value), ref |-> Len(heap) + 1]

RECURSIVE newBands(_, _, _)
newBands(heap, bands, refs) ==
    IF bands = <<>>
    THEN [heap |-> heap, refs |-> refs]
    ELSE LET band == newObject(heap, Head(bands))
         IN  newBands(band.heap, Tail(bands), Append(refs, band.ref))

\* The objects of one result with the field values `value`.
newResult(heap, value) ==
    LET compression == newObject(heap, value.compression)
        saturation  == newObject(compression.heap, value.saturation)
        stereoWidth == newObject(saturation.heap, value.stereoWidth)
        limiter     == newObject(stereoWidth.heap, value.limiterSettings)
        bands       == newBands(limiter.heap, value.eqCurve, <<>>)
        eqCurve     == newObject(bands.heap, [items |-> bands.refs])
    IN  newObject(eqCurve.heap,
                  [eqCurve         |-> eqCurve.ref,
                   compression     |-> compression.ref,
                   saturation      |-> saturation.ref,
                   stereoWidth     |-> stereoWidth.ref,
                   limiterSettings |-> limiter.ref,
                   reverbSend      |-> value.reverbSend])

\* The field values of the result at `root`.
resultAt(heap, root) ==
    LET items == heap[heap[root].eqCurve].items
    IN  [eqCurve         |-> [i \in 1..Len(items) |-> heap[items[i]]],
         compression     |-> heap[heap[root].compression],
         saturation      |-> heap[heap[root].saturation],
         stereoWidth     |-> heap[heap[root].stereoWidth],
         limiterSettings |-> heap[heap[root].limiterSettings],
         reverbSend      |-> heap[root].reverbSend]

\* The objects reachable from the result at `root`.
objectsOf(heap, root) ==
    LET items == heap[heap[root].eqCurve].items
    IN  {root, heap[root].eqCurve, heap[root].compression,
         heap[root].saturation, heap[root].stereoWidth,
         heap[root].limiterSettings}
        \cup {items[i] : i \in 1..Len(items)}

\* What the mapper returns for the settings object as it is now.
mapperValue(heap, entry, role) ==
    IF entry = "getPerRoleChain"
    THEN getPerRoleChain(role, heap[1])
    ELSE processSettingsToChain(heap[1], role)

\* The caller's writes to a result it holds.
ResultParts ==
    {"reverbSend", "compression", "saturation", "stereoWidth",
     "limiterSettings", "eqCurve", "band"}

writeResult(heap, root, part) ==
    LET r     == heap[root]
        items == heap[r.eqCurve].items
    IN  CASE part = "reverbSend" ->
               [heap EXCEPT ![root].reverbSend = @ + 1]
          [] part = "compression" ->
               [heap EXCEPT ![r.compression].ratio = @ + Scale]
          [] part = "saturation" ->
               [heap EXCEPT ![r.saturation].enabled = ~@]
          [] part = "stereoWidth" ->
               [heap EXCEPT ![r.stereoWidth].width = @ + Scale]
          [] part = "limiterSettings" ->
               [heap EXCEPT ![r.limiterSettings].enabled = ~@]
          [] part = "eqCurve" ->
               LET band == newObject(heap, EQBand(1000, Scale, Scale, "bell",
                                                  TRUE))
               IN  [band.heap EXCEPT ![r.eqCurve].items = Append(@, band.ref)]
          [] part = "band" ->
               IF items = <<>> THEN heap
               ELSE [heap EXCEPT ![items[1]].gain = @ + Scale]

\* How many calls of the mapper and writes to results the model follows.
MaxCalls == 3

MaxWrites == 1

HeapSettingsInputs ==
    {s \in SettingsInputs :
        /\ s.punch \in {0, 75} /\ s.warmth \in {0, 60}
        /\ s.clarity \in {0, 60} /\ s.air \in {0, 75}
        /\ s.width \in {0, 50} /\ s.reverb = 40}

HeapRoleInputs == {NoRole, "kick", "snare", "bass", "vocal", "drums", "pad"}

HeapInit ==
    /\ mhOriginal \in HeapSettingsInputs
    /\ mhHeap = <<mhOriginal>>
    /\ mhEntry \in {"processSettingsToChain", "getPerRoleChain"}
    /\ mhRole \in HeapRoleInputs
    /\ mhEntry = "getPerRoleChain" => mhRole # NoRole
    /\ mhResults = <<>>
    /\ mhWritten = {}

HeapIdle ==
    /\ mhOriginal = getDefaultSettings
    /\ mhHeap = <<mhOriginal>>
    /\ mhEntry = "processSettingsToChain"
    /\ mhRole = NoRole
    /\ mhResults = <<>>
    /\ mhWritten = {}

HeapFrame ==
    UNCHANGED <<macroVars, chainVars, curveVars, maskVars, duckVars,
                previewVars, managerVars, classifierVars, analyzeVars,
                shaperVars,
                energyVars,
                exciterVars,
                snapshotVars>>

\* One call of the mapper with the settings object and the role.
HeapCall(entry) ==
    /\ mhEntry = entry
    /\ Len(mhResults) < MaxCalls
    /\ LET made == newResult(mhHeap, mapperValue(mhHeap, entry, mhRole))
       IN  /\ mhHeap' = made.heap
           /\ mhResults' = Append(mhResults, made.ref)
    /\ UNCHANGED <<mhEntry, mhRole, mhOriginal, mhWritten>>
    /\ HeapFrame

HeapProcessSettingsToChain == HeapCall("processSettingsToChain")

HeapGetPerRoleChain == HeapCall("getPerRoleChain")

\* The caller changes a part of a result it holds.
HeapWriteResult ==
    /\ Cardinality(mhWritten) < MaxWrites
    /\ \E k \in (1..Len(mhResults)) \ mhWritten, part \in ResultParts :
          /\ writeResult(mhHeap, mhResults[k], part) # mhHeap
          /\ mhHeap' = writeResult(mhHeap, mhResults[k], part)
          /\ mhWritten' = mhWritten \cup {k}
    /\ UNCHANGED <<mhEntry, mhRole, mhOriginal, mhResults>>
    /\ HeapFrame

HeapNext ==
    HeapProcessSettingsToChain \/ HeapGetPerRoleChain \/ HeapWriteResult

(***************************************************************************)
(* EffectChain: the Web Audio graph of one stem                            *)
(*                                                                         *)
(* A graph is the set of connections <<from, to>> made by connect(); a     *)
(* node is <<kind, index>>.  The member nodes of an EffectChain have index *)
(* 0, the BiquadFilterNode created for eqCurve[i] is <<"eq", i>>.          *)
(***************************************************************************)

Node(kind) == <<kind, 0>>

EqNode(i) == <<"eq", i>>

Built(node, edges) == [node |-> node, edges |-> edges]

\* eqCurve.forEach from band i on: an enabled band gets a filter node that is
\* connected behind currentNode; a disabled band is skipped.
RECURSIVE buildEQFrom(_, _, _, _)
buildEQFrom(i, eqCurve, currentNode, edges) ==
    IF i > Len(eqCurve)
    THEN Built(currentNode, edges)
    ELSE IF eqCurve[i].enabled
         THEN buildEQFrom(i + 1, eqCurve, EqNode(i),
                          edges \cup {<<currentNode, EqNode(i)>>})
         ELSE buildEQFrom(i + 1, eqCurve, currentNode, edges)

buildEQChain(inputNode, eqCurve, edges) ==
    buildEQFrom(1, eqCurve, inputNode, edges)

buildCompressor(inputNode, settings, edges) ==
    IF settings.makeupGain # 0
    THEN Built(Node("makeupGain"),
               edges \cup {<<inputNode, Node("compressor")>>,
                           <<Node("compressor"), Node("makeupGain")>>})
    ELSE Built(Node("compressor"),
               edges \cup {<<inputNode, Node("compressor")>>})

buildSaturation(inputNode, settings, edges) ==
    IF settings.mix < Num(100, 1)
    THEN Built(Node("mixer"),
               edges \cup {<<inputNode, Node("saturationNode")>>,
                           <<Node("saturationNode"), Node("wetGain")>>,
                           <<Node("wetGain"), Node("mixer")>>,
                           <<inputNode, Node("dryGain")>>,
                           <<Node("dryGain"), Node("mixer")>>})
    ELSE Built(Node("saturationNode"),
               edges \cup {<<inputNode, Node("saturationNode")>>})

buildStereoWidth(inputNode, settings, edges) ==
    Built(Node("stereoMerger"),
          edges \cup {<<inputNode, Node("stereoSplitter")>>,
                      <<Node("stereoSplitter"), Node("leftGain")>>,
                      <<Node("stereoSplitter"), Node("rightGain")>>,
                      <<Node("leftGain"), Node("midLeft")>>,
                      <<Node("rightGain"), Node("midLeft")>>,
                      <<Node("leftGain"), Node("sideLeft")>>,
                      <<Node("rightGain"), Node("sideRight")>>,
                      <<Node("midLeft"), Node("midGain")>>,
                      <<Node("sideLeft"), Node("sideGain")>>,
                      <<Node("sideRight"), Node("sideGain")>>,
                      <<Node("midGain"), Node("outLeft")>>,
                      <<Node("midGain"), Node("outRight")>>,
                      <<Node("sideGain"), Node("outLeft")>>,
                      <<Node("sideGain"), Node("sideInvert")>>,
                      <<Node("sideInvert"), Node("outRight")>>,
                      <<Node("outLeft"), Node("stereoMerger")>>,
                      <<Node("outRight"), Node("stereoMerger")>>})

buildLimiter(inputNode, settings, edges) ==
    Built(Node("limiter"), edges \cup {<<inputNode, Node("limiter")>>})

\* buildChain with the saturation stage wired before the compressor.
buildChain_SaturationFirst(processingResult) ==
    LET eq   == buildEQChain(Node("inputNode"), processingResult.eqCurve, {})
        sat  == IF processingResult.saturation.enabled
                THEN buildSaturation(eq.node, processingResult.saturation, eq.edges)
                ELSE eq
        comp == IF processingResult.compression.enabled
                THEN buildCompressor(sat.node, processingResult.compression, sat.edges)
                ELSE sat
        wid  == IF processingResult.stereoWidth.enabled
                THEN buildStereoWidth(comp.node, processingResult.stereoWidth, comp.edges)
                ELSE comp
        gain == Built(Node("gainCompensation"),
                      wid.edges \cup {<<wid.node, Node("gainCompensation")>>})
        lim  == buildLimiter(gain.node, processingResult.limiterSettings, gain.edges)
    IN  lim.edges \cup {<<lim.node, Node("outputNode")>>}

\* The connections made by buildChain, called once by the constructor.
buildChain(processingResult) ==
    LET eq   == buildEQChain(Node("inputNode"), processingResult.eqCurve, {})
        comp == IF processingResult.compression.enabled
                THEN buildCompressor(eq.node, processingResult.compression, eq.edges)
                ELSE eq
        sat  == IF processingResult.saturation.enabled
                THEN buildSaturation(comp.node, processingResult.saturation, comp.edges)
                ELSE comp
        wid  == IF processingResult.stereoWidth.enabled
                THEN buildStereoWidth(sat.node, processingResult.stereoWidth, sat.edges)
                ELSE sat
        gain == Built(Node("gainCompensation"),
                      wid.edges \cup {<<wid.node, Node("gainCompensation")>>})
        lim  == buildLimiter(gain.node, processingResult.limiterSettings, gain.edges)
    IN  lim.edges \cup {<<lim.node, Node("outputNode")>>}

\* The member nodes dispose() calls disconnect() on (besides the eq nodes).
MemberNodes ==
    {Node(k) : k \in {"inputNode", "outputNode", "compressor", "saturationNode",
                      "stereoSplitter", "stereoMerger", "midGain", "sideGain",
                      "limiter", "gainCompensation"}}

\* dispose(): disconnect() removes every outgoing connection of the node.
disposeChain(edges) ==
    {e \in edges : e[1] \notin MemberNodes /\ e[1][1] # "eq"}

\* The longest eqCurve of the model's chain inputs.
MaxBands == 3

BandLists ==
    UNION {{[i \in 1..n |-> EQBand(1000 * i, Num(1, 1), Num(1, 1), "bell", en[i])] :
               en \in [1..n -> BOOLEAN]} : n \in 0..MaxBands}

\* MacroProcessingResults covering every combination the builder branches on.
ChainInputs ==
    {[eqCurve         |-> bands,
      compression     |-> [getDefaultCompression EXCEPT !.enabled = ce,
                                                        !.makeupGain = mk],
      saturation      |-> [getDefaultSaturation EXCEPT !.enabled = se,
                                                       !.mix = mx],
      stereoWidth     |-> [getDefaultStereoWidth EXCEPT !.enabled = we],
      limiterSettings |-> getDefaultLimiter,
      reverbSend      |-> 0] :
        bands \in BandLists, ce \in BOOLEAN, mk \in {0, Num(3, 1)},
        se \in BOOLEAN, mx \in {Num(25, 1), Num(100, 1)}, we \in BOOLEAN}

ChainInit ==
    /\ ecInput \in ChainInputs
    /\ ecState = "none"
    /\ ecEdges = {}

ChainIdle ==
    /\ ecInput = processSettingsToChain(getDefaultSettings, NoRole)
    /\ ecState = "none"
    /\ ecEdges = {}

\* new EffectChain(audioContext, processingResult)
NewEffectChain ==
    /\ ecState = "none"
    /\ ecState' = "built"
    /\ ecEdges' = buildChain(ecInput)
    /\ UNCHANGED ecInput
    /\ ChainFrame

\* EffectChain.dispose()
DisposeEffectChain ==
    /\ ecState = "built"
    /\ ecState' = "disposed"
    /\ ecEdges' = disposeChain(ecEdges)
    /\ UNCHANGED ecInput
    /\ ChainFrame

ChainNext == NewEffectChain \/ DisposeEffectChain

(***************************************************************************)
(* Claims about the EffectChain (checked under SpecChain)                  *)
(***************************************************************************)

\* All paths of the graph from node n to the output node, as node sequences.
RECURSIVE PathsFrom(_, _)
PathsFrom(n, edges) ==
    IF n = Node("outputNode")
    THEN {<<n>>}
    ELSE UNION {{<<n>> \o p : p \in PathsFrom(e[2], edges)} :
                   e \in {d \in edges : d[1] = n}}

\* The stage a node belongs to.
StageOf(n) ==
    CASE n[1] = "eq" -> n
      [] n[1] \in {"compressor"} -> Node("compressor")
      [] n[1] \in {"makeupGain"} -> Node("makeup")
      [] n[1] \in {"saturationNode", "wetGain", "dryGain", "mixer"} ->
             Node("saturator")
      [] n[1] \in {"stereoSplitter", "leftGain", "rightGain", "midLeft",
                   "midRight", "sideLeft", "sideRight", "midGain", "sideGain",
                   "outLeft", "outRight", "sideInvert", "stereoMerger"} ->
             Node("width")
      [] OTHER -> n

\* The stages a path goes through, each once, in the order of the path.
RECURSIVE StagesOf(_)
StagesOf(path) ==
    IF Len(path) = 0 THEN <<>>
    ELSE IF Len(path) > 1 /\ StageOf(path[1]) = StageOf(path[2])
         THEN StagesOf(Tail(path))
         ELSE <<StageOf(path[1])>> \o StagesOf(Tail(path))

RECURSIVE EnabledEq(_, _)
EnabledEq(i, eqCurve) ==
    IF i > Len(eqCurve) THEN <<>>
    ELSE (IF eqCurve[i].enabled THEN <<EqNode(i)>> ELSE <<>>)
         \o EnabledEq(i + 1, eqCurve)

\* The fixed stage order for a processing result.
ExpectedStages(r) ==
    <<Node("inputNode")>>
    \o EnabledEq(1, r.eqCurve)
    \o (IF r.compression.enabled
        THEN <<Node("compressor")>>
             \o (IF r.compression.makeupGain # 0 THEN <<Node("makeup")>> ELSE <<>>)
        ELSE <<>>)
    \o (IF r.saturation.enabled THEN <<Node("saturator")>> ELSE <<>>)
    \o (IF r.stereoWidth.enabled THEN <<Node("width")>> ELSE <<>>)
    \o <<Node("gainCompensation"), Node("limiter"), Node("outputNode")>>

\* C4: the graph built by buildChain has a path from the input node to the
\* output node, and every such path visits exactly the enabled stages in the
\* fixed order: enabled EQ bands in list order, compressor (and makeup gain
\* when non-zero), saturator, stereo width, gain compensation, limiter.
C4_StageOrder ==
    ecState = "built"
        => /\ PathsFrom(Node("inputNode"), ecEdges) # {}
           /\ \A p \in PathsFrom(Node("inputNode"), ecEdges) :
                  StagesOf(p) = ExpectedStages(ecInput)

\* A built chain with a disabled band between two enabled ones, compressor
\* with makeup gain, a saturator with a dry path and no width stage: more than
\* one path, and the disabled stages are skipped.
C4_Witness ==
    /\ ecState = "built"
    /\ Len(ecInput.eqCurve) = 3
    /\ ecInput.eqCurve[1].enabled /\ ~ecInput.eqCurve[2].enabled
    /\ ecInput.eqCurve[3].enabled
    /\ ecInput.compression.enabled /\ ecInput.compression.makeupGain # 0
    /\ ecInput.saturation.enabled /\ ecInput.saturation.mix < Num(100, 1)
    /\ ~ecInput.stereoWidth.enabled
    /\ Cardinality(PathsFrom(Node("inputNode"), ecEdges)) = 2
    /\ <<EqNode(1), EqNode(3)>> \in ecEdges

(***************************************************************************)
(* EffectChain.createSaturationCurve                                       *)
(*                                                                         *)
(* Sample values are fixed point with denominator CurveScale.  Math.tanh   *)
(* is computed by Lambert's continued fraction                             *)
(*     tanh a = a / (1 + a^2 / (3 + a^2 / (5 + ...)))                      *)
(* cut after TanhTerms terms, which is exact to the last fixed-point digit *)
(* for the arguments that occur (0 <= a <= 2.6).                           *)
(***************************************************************************)

CurveScale == 100 * 100

\* Number of terms of the continued fraction for tanh.
TanhTerms == 8

Abs(x) == IF x < 0 THEN 0 - x ELSE x

Sign(x) == IF x < 0 THEN -1 ELSE IF x > 0 THEN 1 ELSE 0

\* The denominator term k of the continued fraction, for a^2 = a2.
RECURSIVE TanhDenominator(_, _)
TanhDenominator(k, a2) ==
    IF k >= TanhTerms
    THEN (2 * k - 1) * CurveScale
    ELSE (2 * k - 1) * CurveScale
         + (a2 * CurveScale) \div TanhDenominator(k + 1, a2)

\* Math.tanh, an odd function.
Tanh(a) ==
    LET m  == Abs(a)
        a2 == (m * m) \div CurveScale
    IN  Sign(a) * ((m * CurveScale) \div TanhDenominator(1, a2))

\* const samples = 44100
samples == 44100

\* x = (i * 2) / samples - 1
SampleX(i) == (i * 2 * CurveScale) \div samples - CurveScale

\* The body of the loop: curve[i] for the given drive and character.
\* tube:       sign(x) * tanh(|x| * (1 + drive * 0.5))
\* tape:       tanh(x * (1 + drive * 0.3))
\* transistor: sign(x) * min(|x| * (1 + drive * 0.8), 0.95)
\* otherwise:  x
SaturationSample(i, drive, character) ==
    LET x == SampleX(i)
    IN  CASE character = "tube" ->
               Sign(x) * Tanh((Abs(x) * (CurveScale + (drive * 5) \div 10))
                              \div CurveScale)
          [] character = "tape" ->
               Sign(x) * Tanh((Abs(x) * (CurveScale + (drive * 3) \div 10))
                              \div CurveScale)
          [] character = "transistor" ->
               Sign(x) * Min((Abs(x) * (CurveScale + (drive * 8) \div 10))
                             \div CurveScale,
                             (95 * CurveScale) \div 100)
          [] OTHER -> x

\* The model computes the curve at CurvePoints of the 44100 sample indices,
\* evenly spaced from index 0.
CurvePoints == 20

PointIndex(k) == ((k - 1) * samples) \div CurvePoints

DriveInputs ==
    {0, CurveScale \div 2, CurveScale, 2 * CurveScale}

CharacterInputs == {"tube", "tape", "transistor", "digital"}

CurveInit ==
    /\ scDrive \in DriveInputs
    /\ scCharacter \in CharacterInputs
    /\ scNext = 1
    /\ scCurve = <<>>

CurveIdle ==
    /\ scDrive = 0
    /\ scCharacter = "tube"
    /\ scNext = 1
    /\ scCurve = <<>>

\* One iteration of the for loop of createSaturationCurve (at the next of the
\* model's sample points).
CurveLoop ==
    /\ scNext <= CurvePoints
    /\ scCurve' = Append(scCurve,
                         SaturationSample(PointIndex(scNext), scDrive, scCharacter))
    /\ scNext' = scNext + 1
    /\ UNCHANGED <<scDrive, scCharacter>>
    /\ CurveFrame

CurveNext == CurveLoop

(***************************************************************************)
(* MaskingAnalyzer                                                         *)
(***************************************************************************)

\* analyze(): the heat map returned (matrix entries in tenths).  It takes no
\* argument and reads no state.
analyze ==
    [stems         |-> <<"kick", "bass", "vocal">>,
     frequencies   |-> <<20, 50, 100, 200, 500, 1000, 2000, 5000, 10000, 20000>>,
     maskingMatrix |-> << <<0, 2, 1, 0, 0, 0, 0, 0, 0, 0>>,
                          <<3, 0, 5, 2, 0, 0, 0, 0, 0, 0>>,
                          <<0, 0, 1, 2, 3, 4, 2, 1, 0, 0>> >>,
     conflictLevel |-> "medium"]

\* The mix of the model: two stems, MaskBins frequency bins, energies
\* 0..MaxEnergy.
MaskStems == {"stemA", "stemB"}

MaskBins == 3

MaxEnergy == 2

EmptyHeatmap ==
    [stems |-> <<>>, frequencies |-> <<>>, maskingMatrix |-> <<>>,
     conflictLevel |-> "low"]

MaskInit ==
    /\ maSpectra \in [MaskStems -> [1..MaskBins -> 0..MaxEnergy]]
    /\ maCalled = FALSE
    /\ maResult = EmptyHeatmap

MaskIdle ==
    /\ maSpectra = [st \in MaskStems |-> [b \in 1..MaskBins |-> 0]]
    /\ maCalled = FALSE
    /\ maResult = EmptyHeatmap

\* maskingAnalyzer.analyze()
Analyze ==
    /\ ~maCalled
    /\ maCalled' = TRUE
    /\ maResult' = analyze
    /\ UNCHANGED maSpectra
    /\ MaskFrame

MaskNext == Analyze

(***************************************************************************)
(* SidechainDucker and its EnvelopeFollower                                *)
(***************************************************************************)

\* Gain 1.0.
Unity == 10 * 10

\* The assistantValue inputs of the model (0, 0.8 the default, 1.0).
AssistantInputs == {0, 80, 100}

\* The rms levels a monitor tick may read from the analyser (0 .. 1.0).
RmsInputs == {0, 50, 100}

\* setSensitivity: Math.max(0, Math.min(1, sensitivity))
setSensitivity(sensitivity) == Max(0, Min(Unity, sensitivity))

\* duckingAmount = level * this.settings.assistantValue
duckingAmount(level, assistantValue) == (level * assistantValue) \div Unity

\* The gain target without the 10% floor.
DuckingTarget_NoFloor(level, assistantValue) ==
    Unity - duckingAmount(level, assistantValue)

\* The gain target scheduled by the onLevelChange callback:
\* Math.max(0.1, 1 - level * assistantValue)
DuckingTarget(level, assistantValue) ==
    Max(10, Unity - duckingAmount(level, assistantValue))

\* scaledLevel = rms * this.sensitivity
ScaledLevel(rms, sensitivity) == (rms * sensitivity) \div Unity

\* AudioParam.setTargetAtTime: the value approaches the target exponentially,
\* never passing it.  One step of the model halves the distance and lands on
\* the target once within SmoothingSnap hundredths.
SmoothingSnap == 30

SmoothStep(value, target) ==
    IF Abs(target - value) <= SmoothingSnap
    THEN target
    ELSE value + (target - value) \div 2

DuckInit ==
    /\ dkEnabled \in BOOLEAN
    /\ dkAssistant \in AssistantInputs
    /\ dkSource = FALSE
    /\ dkTarget = FALSE
    /\ dkIsActive = FALSE
    /\ dkCallback = FALSE
    /\ dkSensitivity = 80
    /\ dkTimer = TRUE
    /\ dkGainTarget = Unity
    /\ dkGain = Unity
    /\ dkRestoring = FALSE
    /\ dkLevel = 0
    /\ dkCalls = FALSE

DuckIdle ==
    /\ dkEnabled = FALSE
    /\ dkAssistant = 80
    /\ dkSource = FALSE
    /\ dkTarget = FALSE
    /\ dkIsActive = FALSE
    /\ dkCallback = FALSE
    /\ dkSensitivity = 80
    /\ dkTimer = TRUE
    /\ dkGainTarget = Unity
    /\ dkGain = Unity
    /\ dkRestoring = FALSE
    /\ dkLevel = 0
    /\ dkCalls = FALSE

\* updateDucking() given the values of enabled, source and target it reads:
\* whether it installs the callback and sets isActive.
updateDucking(enabled, source, target) == enabled /\ source /\ target

\* configure(newSettings) with assistantValue and/or enabled in newSettings
\* ("undefined" = field absent; the filter and compressor fields are not
\* modelled).
Configure(av, en) ==
    /\ av \in AssistantInputs \cup {-1}
    /\ en \in {"undefined", "true", "false"}
    /\ dkAssistant' = IF av = -1 THEN dkAssistant ELSE av
    /\ dkEnabled' = IF en = "undefined" THEN dkEnabled ELSE (en = "true")
    /\ dkSensitivity' = setSensitivity(dkAssistant')
    /\ UNCHANGED <<dkSource, dkTarget, dkIsActive, dkCallback, dkTimer,
                   dkGainTarget, dkGain, dkRestoring>>
    /\ UNCHANGED tickVars
    /\ DuckFrame

\* connectSource(sourceNode): an existing source makes it call disconnect(),
\* which also drops the target.
ConnectSource ==
    /\ dkSource' = TRUE
    /\ dkTarget' = IF dkSource THEN FALSE ELSE dkTarget
    /\ IF updateDucking(dkEnabled, TRUE, dkTarget')
       THEN dkCallback' = TRUE /\ dkIsActive' = TRUE
       ELSE /\ dkCallback' = dkCallback
            /\ dkIsActive' = IF dkSource THEN FALSE ELSE dkIsActive
    /\ dkGainTarget' = IF dkTarget' THEN dkGainTarget ELSE Unity
    /\ dkGain' = IF dkTarget' THEN dkGain ELSE Unity
    /\ dkRestoring' = IF dkSource THEN FALSE ELSE dkRestoring
    /\ UNCHANGED <<dkEnabled, dkAssistant, dkSensitivity, dkTimer>>
    /\ UNCHANGED tickVars
    /\ DuckFrame

\* connectTarget(targetNode): a new GainNode (gain 1) becomes the target.
ConnectTarget ==
    /\ dkTarget' = TRUE
    /\ dkGainTarget' = Unity
    /\ dkGain' = Unity
    /\ IF updateDucking(dkEnabled, dkSource, TRUE)
       THEN dkCallback' = TRUE /\ dkIsActive' = TRUE
       ELSE UNCHANGED <<dkCallback, dkIsActive>>
    /\ dkRestoring' = FALSE
    /\ UNCHANGED <<dkEnabled, dkAssistant, dkSource, dkSensitivity, dkTimer>>
    /\ UNCHANGED tickVars
    /\ DuckFrame

\* enable()
Enable ==
    /\ dkEnabled' = TRUE
    /\ IF updateDucking(TRUE, dkSource, dkTarget)
       THEN dkCallback' = TRUE /\ dkIsActive' = TRUE
       ELSE UNCHANGED <<dkCallback, dkIsActive>>
    /\ dkRestoring' = FALSE
    /\ UNCHANGED <<dkAssistant, dkSource, dkTarget, dkSensitivity, dkTimer,
                   dkGainTarget, dkGain>>
    /\ UNCHANGED tickVars
    /\ DuckFrame

\* disable(): schedules gain 1 on the target and clears isActive; the
\* onLevelChange callback stays installed.
Disable ==
    /\ dkEnabled' = FALSE
    /\ dkGainTarget' = IF dkTarget THEN Unity ELSE dkGainTarget
    /\ dkIsActive' = FALSE
    /\ dkRestoring' = (dkRestoring
                       \/ (dkEnabled /\ dkSource /\ dkTarget /\ dkIsActive))
    /\ UNCHANGED <<dkAssistant, dkSource, dkTarget, dkCallback, dkSensitivity,
                   dkTimer, dkGain>>
    /\ UNCHANGED tickVars
    /\ DuckFrame

\* disconnect()
Disconnect ==
    /\ dkSource' = FALSE
    /\ dkTarget' = FALSE
    /\ dkIsActive' = FALSE
    /\ dkGainTarget' = Unity
    /\ dkGain' = Unity
    /\ dkRestoring' = FALSE
    /\ UNCHANGED <<dkEnabled, dkAssistant, dkCallback, dkSensitivity, dkTimer>>
    /\ UNCHANGED tickVars
    /\ DuckFrame

\* One run of the setInterval monitor that gets past its first line: it
\* reads the rms level and calls onLevelChange, which schedules the gain
\* target unless there is no target node.
MonitorTick(rms) ==
    /\ dkTimer
    /\ dkCallback
    /\ dkGainTarget' =
           IF dkTarget
           THEN DuckingTarget(ScaledLevel(rms, dkSensitivity), dkAssistant)
           ELSE dkGainTarget
    /\ UNCHANGED <<dkEnabled, dkAssistant, dkSource, dkTarget, dkIsActive,
                   dkCallback, dkSensitivity, dkTimer, dkGain, dkRestoring>>
    /\ dkLevel' = ScaledLevel(rms, dkSensitivity)
    /\ dkCalls' = ~dkCalls
    /\ DuckFrame

\* Audio time passes: the gain follows its scheduled target.
GainSmoothing ==
    /\ dkTarget
    /\ dkGain # dkGainTarget
    /\ dkGain' = SmoothStep(dkGain, dkGainTarget)
    /\ UNCHANGED <<dkEnabled, dkAssistant, dkSource, dkTarget, dkIsActive,
                   dkCallback, dkSensitivity, dkTimer, dkGainTarget,
                   dkRestoring>>
    /\ UNCHANGED tickVars
    /\ DuckFrame

\* dispose(): disconnect() and the follower's clearInterval.
DisposeDucker ==
    /\ dkTimer
    /\ dkSource' = FALSE
    /\ dkTarget' = FALSE
    /\ dkIsActive' = FALSE
    /\ dkGainTarget' = Unity
    /\ dkGain' = Unity
    /\ dkRestoring' = FALSE
    /\ dkTimer' = FALSE
    /\ UNCHANGED <<dkEnabled, dkAssistant, dkCallback, dkSensitivity>>
    /\ UNCHANGED tickVars
    /\ DuckFrame

DuckNext ==
    \/ \E av \in AssistantInputs \cup {-1}, en \in {"undefined", "true", "false"} :
           Configure(av, en)
    \/ ConnectSource
    \/ ConnectTarget
    \/ Enable
    \/ Disable
    \/ Disconnect
    \/ \E rms \in RmsInputs : MonitorTick(rms)
    \/ GainSmoothing
    \/ DisposeDucker

(***************************************************************************)
(* TransientShaper and its EnvelopeFollower (proAudioModules)              *)
(*                                                                         *)
(* The follower's constructor starts the detection loop: detectTransients  *)
(* runs once and re-arms itself with requestAnimationFrame at the end of   *)
(* every run.  After dispose() the follower's nodes are disconnected; what *)
(* the analyser then returns is the tail of the signal it received before  *)
(* (its last block, the smoother's decay), so the rms a later iteration    *)
(* reads is any of the model's levels.                                     *)
(***************************************************************************)

\* The rms levels an iteration may read from the analyser.
ShaperRmsInputs == {0, 4, 50}

ShaperParameterInputs ==
    [param : {"attack", "sustain"}, value : {0, 50}]
    \cup [param : {"sensitivity"}, value : {0, 50, 100}]

\* EnvelopeFollower.setSensitivity: Math.max(0, Math.min(1, sensitivity))
setFollowerSensitivity(sensitivity) == Max(0, Min(100, sensitivity))

\* The processor that the onTransientDetected callback of
\* TransientShaper.setupProcessing drives for a transient of this type.
processedBy(parameters, type, processed) ==
    CASE type = "attack" /\ parameters.attack # 0 -> "attack"
      [] type = "sustain" /\ parameters.sustain # 0 -> "sustain"
      [] OTHER -> processed

\* rms > this.sensitivity * 0.1
isTransient(rms, sensitivity) == rms * 10 > sensitivity

\* State after the TransientShaper constructor.
ShaperInit ==
    /\ tsParameters = [attack |-> 0, sustain |-> 0, sensitivity |-> 50]
    /\ tsSensitivity = 50
    /\ tsActivity = 0
    /\ tsProcessed = "none"
    /\ tsDisposed = FALSE
    /\ tsLoopRuns = FALSE
    /\ tsDetected = FALSE

ShaperIdle == ShaperInit

ShaperFrame ==
    UNCHANGED <<macroVars, chainVars, curveVars, maskVars, duckVars,
                previewVars, managerVars, classifierVars, analyzeVars,
                heapVars,
                energyVars,
                exciterVars,
                snapshotVars>>

\* setParameter(param, value) for attack, sustain and sensitivity
ShaperSetParameter(param, value) ==
    /\ tsParameters' = [tsParameters EXCEPT ![param] = value]
    /\ tsSensitivity' = IF param = "sensitivity"
                        THEN setFollowerSensitivity(value)
                        ELSE tsSensitivity
    /\ UNCHANGED <<tsActivity, tsProcessed, tsDisposed, tsLoopRuns,
                   tsDetected>>
    /\ ShaperFrame

\* One iteration of detectTransients, scheduled by the previous one.
DetectTransients(rms, isAttack) ==
    /\ tsLoopRuns' = ~tsLoopRuns
    /\ tsActivity' = (rms * tsSensitivity) \div 100
    /\ IF isTransient(rms, tsSensitivity)
       THEN /\ tsDetected' = ~tsDetected
            /\ tsProcessed' =
                  processedBy(tsParameters,
                              IF isAttack THEN "attack" ELSE "sustain",
                              tsProcessed)
       ELSE UNCHANGED <<tsDetected, tsProcessed>>
    /\ UNCHANGED <<tsParameters, tsSensitivity, tsDisposed>>
    /\ ShaperFrame

\* TransientShaper.dispose(): disconnects the nodes of the follower, of the
\* two processors and of the shaper.
ShaperDispose ==
    /\ ~tsDisposed
    /\ tsDisposed' = TRUE
    /\ UNCHANGED <<tsParameters, tsSensitivity, tsActivity, tsProcessed,
                   tsLoopRuns, tsDetected>>
    /\ ShaperFrame

ShaperNext ==
    \/ \E p \in ShaperParameterInputs : ShaperSetParameter(p.param, p.value)
    \/ \E rms \in ShaperRmsInputs, isAttack \in BOOLEAN :
           DetectTransients(rms, isAttack)
    \/ ShaperDispose

(***************************************************************************)
(* HarmonicExciter and HarmonicBandProcessor (proAudioModules)             *)
(*                                                                         *)
(* A curve is given by its values at the sample indices ExciterPoints of   *)
(* the 256 samples (x = -0.5, 0.25, 0.5), fixed point with denominator     *)
(* CurveScale; drives are fixed point too (CurveScale = drive 1.0, the     *)
(* parameter value 100).                                                   *)
(***************************************************************************)

ExciterBands == {"low", "mid", "high"}

ExciterPoints == {64, 160, 192}

\* x = (i - samples / 2) / (samples / 2) with samples = 256
ExciterX(i) == ((i - 128) * CurveScale) \div 128

\* Math.sin(a * Math.PI) for a a multiple of 0.25
SinPi(a) ==
    LET m == a % (2 * CurveScale)
        quarter == m \div (CurveScale \div 4)
    IN  CASE quarter \in {0, 4} -> 0
          [] quarter \in {1, 3} -> 7071
          [] quarter = 2 -> CurveScale
          [] quarter \in {5, 7} -> 0 - 7071
          [] OTHER -> 0 - CurveScale

\* The saturation law of updateSaturationCurve for drive > 0; "undefined"
\* (no character passed) takes the default branch.
SaturationLaw(x, drive, character) ==
    CASE character = "tube" ->
           (Tanh((x * (CurveScale + drive * 5)) \div CurveScale) * 8) \div 10
      [] character = "tape" ->
           Sign(x) * ((Abs(x) * CurveScale)
                      \div (CurveScale + (Abs(x) * drive) \div CurveScale))
      [] character = "transistor" ->
           Sign(x) * Min((Abs(x) * (CurveScale + drive)) \div CurveScale,
                         CurveScale)
      [] character = "digital" ->
           Sign(x) * Min((Abs(x) * (CurveScale + drive * 2)) \div CurveScale,
                         CurveScale)
      [] OTHER ->
           Tanh((x * (CurveScale + drive * 3)) \div CurveScale)

\* The adjustment for the harmonic type; 'both' and "undefined" add nothing.
HarmonicAdjust(x, drive, harmonicType) ==
    CASE harmonicType = "even" ->
           (SinPi(x) * drive) \div (CurveScale * 10)
      [] harmonicType = "odd" ->
           (SinPi(2 * x) * drive) \div (CurveScale * 10)
      [] OTHER -> 0

\* updateSaturationCurve(drive, harmonicType, character): the curve it
\* stores in saturationNode.curve.
updateSaturationCurve(drive, harmonicType, character) ==
    [i \in ExciterPoints |->
        IF drive > 0
        THEN SaturationLaw(ExciterX(i), drive, character)
             + HarmonicAdjust(ExciterX(i), drive, harmonicType)
        ELSE ExciterX(i)]

\* The curve a band processor builds in setDrive(value),
\* setHarmonicType(value) and setCharacter(value): the arguments it does not
\* pass are undefined.
bandCurve(op, content, value) ==
    CASE op = "setDrive" ->
           updateSaturationCurve(value, "undefined", "undefined")
      [] op = "setHarmonicType" ->
           updateSaturationCurve(content, value, "undefined")
      [] op = "setCharacter" ->
           updateSaturationCurve(content, "undefined", value)

ExciterDriveInputs == {0, 50, 100}

HarmonicTypeInputs == {"even", "odd", "both"}

ExciterCharacterInputs == {"tube", "tape", "transistor", "digital"}

\* State after the HarmonicExciter constructor: every band processor has
\* run setCharacter('tube') with harmonicContent 0.
ExciterInit ==
    /\ heParameters = [low  |-> [drive |-> 0, harmonics |-> "even"],
                       mid  |-> [drive |-> 0, harmonics |-> "odd"],
                       high |-> [drive |-> 0, harmonics |-> "even"],
                       character |-> "tube"]
    /\ heContent = [b \in ExciterBands |-> 0]
    /\ heCurve = [b \in ExciterBands |->
                     updateSaturationCurve(0, "undefined", "tube")]

ExciterIdle == ExciterInit

ExciterFrame ==
    UNCHANGED <<macroVars, chainVars, curveVars, maskVars, duckVars,
                previewVars, managerVars, classifierVars, analyzeVars,
                heapVars, shaperVars, energyVars,
                snapshotVars>>

\* setParameter('lowDrive' | 'midDrive' | 'highDrive', value)
ExciterSetDrive(band, value) ==
    /\ heParameters' = [heParameters EXCEPT ![band].drive = value]
    /\ heContent' = [heContent EXCEPT ![band] = value * (CurveScale \div 100)]
    /\ heCurve' = [heCurve EXCEPT ![band] =
                      bandCurve("setDrive", heContent[band],
                                value * (CurveScale \div 100))]
    /\ ExciterFrame

\* setParameter('lowHarmonics' | 'midHarmonics' | 'highHarmonics', value)
ExciterSetHarmonics(band, value) ==
    /\ heParameters' = [heParameters EXCEPT ![band].harmonics = value]
    /\ heCurve' = [heCurve EXCEPT ![band] =
                      bandCurve("setHarmonicType", heContent[band], value)]
    /\ UNCHANGED heContent
    /\ ExciterFrame

\* setParameter('character', value): setCharacter on all three bands
ExciterSetCharacter(value) ==
    /\ heParameters' = [heParameters EXCEPT !.character = value]
    /\ heCurve' = [b \in ExciterBands |->
                      bandCurve("setCharacter", heContent[b], value)]
    /\ UNCHANGED heContent
    /\ ExciterFrame

ExciterNext ==
    \/ \E b \in ExciterBands, v \in ExciterDriveInputs : ExciterSetDrive(b, v)
    \/ \E b \in ExciterBands, v \in HarmonicTypeInputs :
           ExciterSetHarmonics(b, v)
    \/ \E v \in ExciterCharacterInputs : ExciterSetCharacter(v)

(***************************************************************************)
(* ProcessingChainManager: construction, module controls and snapshots     *)
(*                                                                         *)
(* Parameter values are tagged by their JavaScript type; numbers are in    *)
(* thousandths.  Snapshot timestamps (Date.now()) and the ducking settings *)
(* take no part in the operations below and are left out.  The constructor *)
(* assigns chain only after createDefaultChain has returned; importPreset  *)
(* is the other assignment to chain.                                       *)
(***************************************************************************)

Undefined == [undefined |-> TRUE]
Null == [null |-> TRUE]
NonFinite(name) == [nonfinite |-> name]
Number(n) == [number |-> n]
String(s) == [string |-> s]
Boolean(b) == [boolean |-> b]

\* JSON.parse(JSON.stringify(value)) for a number, boolean or string: NaN and
\* the infinities are written as null.
jsonValue(value) == IF "nonfinite" \in DOMAIN value THEN Null ELSE value

jsonParameters(parameters) ==
    [p \in DOMAIN parameters |-> jsonValue(parameters[p])]

jsonModule(module) ==
    [f \in DOMAIN module |->
        CASE f = "parameters" -> jsonParameters(module.parameters)
          [] f = "preset" -> [module.preset EXCEPT
                                 !.parameters = jsonParameters(@)]
          [] OTHER -> module[f]]

\* JSON.parse(JSON.stringify(modules))
jsonModules(modules) == [i \in DOMAIN modules |-> jsonModule(modules[i])]

createHPFModule ==
    [id |-> "hpf", name |-> "High Pass Filter", enabled |-> FALSE,
     parameters |-> [frequency |-> Number(20000), slope |-> Number(12000),
                     resonance |-> Number(707)]]

createEQBand(id, frequency, gain, q, type) ==
    [id |-> id, frequency |-> frequency, gain |-> gain, q |-> q, type |-> type,
     enabled |-> FALSE, isDynamic |-> FALSE, threshold |-> -20000,
     ratio |-> 2000, attack |-> 10000, release |-> 100000,
     midSideMode |-> "stereo"]

createDynamicEQModule ==
    [id |-> "eq", name |-> "Dynamic EQ", enabled |-> TRUE, parameters |-> <<>>,
     bands |-> <<createEQBand("low", 80000, 0, 707, "highpass"),
                 createEQBand("low-mid", 200000, 0, 1000, "bell"),
                 createEQBand("mid", 1000000, 0, 1000, "bell"),
                 createEQBand("high-mid", 3000000, 0, 1000, "bell"),
                 createEQBand("presence", 8000000, 0, 1000, "bell"),
                 createEQBand("air", 12000000, 0, 707, "highshelf")>>,
     globalMidSide |-> FALSE, analyzerEnabled |-> TRUE]

createCompressorModule ==
    [id |-> "compressor", name |-> "Compressor", enabled |-> FALSE,
     parameters |-> [threshold |-> Number(-12000), ratio |-> Number(4000),
                     attack |-> Number(10000), release |-> Number(100000),
                     knee |-> Number(2000), makeupGain |-> Number(0),
                     lookahead |-> Number(5000), sidechain |-> Boolean(FALSE)]]

createSaturatorModule ==
    [id |-> "saturator", name |-> "Saturator", enabled |-> FALSE,
     parameters |-> [drive |-> Number(0), character |-> String("warm"),
                     mix |-> Number(100000), outputGain |-> Number(0)]]

createStereoWidthModule ==
    [id |-> "stereo_width", name |-> "Stereo Width", enabled |-> FALSE,
     parameters |-> [width |-> Number(100000), bassMonoFreq |-> Number(120000),
                     bassMonoEnabled |-> Boolean(TRUE),
                     correlation |-> Number(500)]]

createLimiterModule ==
    [id |-> "limiter", name |-> "Limiter", enabled |-> TRUE,
     parameters |-> [ceiling |-> Number(-100), release |-> Number(50000),
                     isr |-> Number(4000),
                     character |-> String("transparent")]]

\* The modules array literal of createDefaultChain.
DefaultModules ==
    <<createHPFModule, createDynamicEQModule, createCompressorModule,
      createSaturatorModule, createStereoWidthModule, createLimiterModule>>

\* createDefaultSnapshot(name) on a manager whose chain field is `chain`:
\* reading this.chain.modules of an undefined chain throws a TypeError.
createDefaultSnapshot(chain, name) ==
    IF chain = Undefined
    THEN [thrown |-> "TypeError"]
    ELSE [thrown |-> "none",
          value |-> [id |-> name.id, name |-> name.name,
                     chain |-> jsonModules(chain.modules)]]

SnapshotNames ==
    <<[id |-> "snapshot_a", name |-> "Snapshot A"],
      [id |-> "snapshot_b", name |-> "Snapshot B"],
      [id |-> "snapshot_c", name |-> "Snapshot C"]>>

\* createDefaultChain() on a manager whose chain field is `chain`: the
\* object literal is evaluated property by property, so the three snapshots
\* are built while the chain field still has the value it had at the call.
createDefaultChain(chain) ==
    LET snapshots == [i \in 1..3 |-> createDefaultSnapshot(chain, SnapshotNames[i])]
    IN  IF \E i \in 1..3 : snapshots[i].thrown # "none"
        THEN [thrown |-> "TypeError"]
        ELSE [thrown |-> "none",
              value |-> [modules |-> DefaultModules,
                         snapshots |-> [i \in 1..3 |-> snapshots[i].value],
                         currentSnapshot |-> 0,
                         gainMatch |-> TRUE]]

\* new ProcessingChainManager(audioContext): this.chain =
\* this.createDefaultChain(), with the chain field not yet assigned.
constructed ==
    LET result == createDefaultChain(Undefined)
    IN  IF result.thrown # "none"
        THEN [chain |-> Undefined, thrown |-> result.thrown]
        ELSE [chain |-> result.value, thrown |-> "none"]

\* The chain the literal of createDefaultChain describes: the six modules and
\* three snapshots that copy them.  exportPreset of it is the preset text
\* importPreset is given.
DefaultChain ==
    [modules |-> DefaultModules,
     snapshots |-> [i \in 1..3 |->
                      [id |-> SnapshotNames[i].id, name |-> SnapshotNames[i].name,
                       chain |-> jsonModules(DefaultModules)]],
     currentSnapshot |-> 0,
     gainMatch |-> TRUE]

\* this.chain.modules.find(m => m.id === moduleId): the index, 0 if none
findModule(modules, moduleId) ==
    IF \E i \in DOMAIN modules : modules[i].id = moduleId
    THEN CHOOSE i \in DOMAIN modules :
            /\ modules[i].id = moduleId
            /\ \A j \in DOMAIN modules : modules[j].id = moduleId => i <= j
    ELSE 0

\* module.parameters[paramName] = value
withParameter(parameters, paramName, value) ==
    [p \in DOMAIN parameters \cup {paramName} |->
        IF p = paramName THEN value ELSE parameters[p]]

\* Object.assign(module.parameters, preset.parameters)
assignParameters(parameters, source) ==
    [p \in DOMAIN parameters \cup DOMAIN source |->
        IF p \in DOMAIN source THEN source[p] ELSE parameters[p]]

\* module.preset = preset
withPreset(module, preset) ==
    [f \in DOMAIN module \cup {"preset"} |->
        IF f = "preset" THEN preset ELSE module[f]]

\* slotIndex >= 0 && slotIndex < this.chain.globalSettings.snapshots.length
validSlot(chain, slotIndex) ==
    slotIndex >= 0 /\ slotIndex < Len(chain.snapshots)

\* `snapshot_${slotIndex}`
SlotIds == <<"snapshot_0", "snapshot_1", "snapshot_2">>

\* this.lufsAnalyzer.getIntegratedLUFS(): integrated = -23
IntegratedLUFS == 0 - 23000

\* At most this many method calls are made on one manager.
MaxOps == 5

NoSave == <<>>

ModuleIdInputs == {"hpf", "limiter", "global"}
ParameterInputs ==
    {[moduleId |-> "hpf", paramName |-> "frequency", value |-> Number(80000)],
     [moduleId |-> "hpf", paramName |-> "frequency", value |-> NonFinite("NaN")],
     [moduleId |-> "global", paramName |-> "gainMatch", value |-> Boolean(FALSE)]}
PresetInputs ==
    {[name |-> "Rumble Cut", description |-> "removes sub-bass rumble",
      parameters |-> [frequency |-> Number(40000), slope |-> Number(24000)]]}
BandIdInputs == {"low", "sub"}
SlotInputs == {-1, 0, 1, 3}
PresetDataInputs == {[json |-> FALSE], [json |-> TRUE, chain |-> DefaultChain]}

SnapshotCall(op, slot) == [op |-> op, slot |-> slot]

SnapshotInit ==
    /\ pcChain = constructed.chain
    /\ pcThrown = constructed.thrown
    /\ pcLastCall = SnapshotCall("new", 0)
    /\ pcSavedModules = [i \in 0..2 |-> NoSave]
    /\ pcOps = 0

SnapshotIdle == SnapshotInit

SnapshotFrame ==
    UNCHANGED <<macroVars, chainVars, curveVars, maskVars, duckVars,
                previewVars, managerVars, classifierVars, analyzeVars,
                heapVars, shaperVars, energyVars, exciterVars>>

\* A method that reads this.chain.modules or this.chain.globalSettings of
\* an undefined chain throws a TypeError and changes nothing.
ThrowsOnUndefined(op, slot) ==
    /\ pcChain = Undefined
    /\ pcThrown' = "TypeError"
    /\ pcLastCall' = SnapshotCall(op, slot)
    /\ UNCHANGED <<pcChain, pcSavedModules>>

Returns(op, slot) ==
    /\ pcThrown' = "none"
    /\ pcLastCall' = SnapshotCall(op, slot)

\* new ProcessingChainManager(audioContext)
Construct ==
    /\ pcChain' = constructed.chain
    /\ pcThrown' = constructed.thrown
    /\ pcLastCall' = SnapshotCall("new", 0)
    /\ pcSavedModules' = [i \in 0..2 |-> NoSave]
    /\ pcOps' = 0
    /\ SnapshotFrame

\* importPreset(presetData): JSON.parse throws on text that is not JSON and
\* the catch block logs it.
ImportPreset(presetData) ==
    /\ pcOps < MaxOps
    /\ pcOps' = pcOps + 1
    /\ pcChain' = IF presetData.json
                  THEN [presetData.chain EXCEPT
                           !.modules = jsonModules(@),
                           !.snapshots = [i \in DOMAIN @ |->
                               [@[i] EXCEPT !.chain = jsonModules(@)]]]
                  ELSE pcChain
    /\ Returns("importPreset", 0)
    /\ pcSavedModules' = IF presetData.json
                         THEN [i \in 0..2 |-> NoSave]
                         ELSE pcSavedModules
    /\ SnapshotFrame

\* toggleModule(moduleId)
ToggleModule(moduleId) ==
    /\ pcOps < MaxOps
    /\ pcOps' = pcOps + 1
    /\ \/ ThrowsOnUndefined("toggleModule", 0)
       \/ /\ pcChain # Undefined
          /\ LET i == findModule(pcChain.modules, moduleId)
             IN  pcChain' = IF i = 0 THEN pcChain
                            ELSE [pcChain EXCEPT !.modules[i].enabled = ~@]
          /\ Returns("toggleModule", 0)
          /\ UNCHANGED pcSavedModules
    /\ SnapshotFrame

\* setModuleParameter(moduleId, paramName, value)
SetModuleParameter(moduleId, paramName, value) ==
    /\ pcOps < MaxOps
    /\ pcOps' = pcOps + 1
    /\ \/ ThrowsOnUndefined("setModuleParameter", 0)
       \/ /\ pcChain # Undefined
          /\ LET i == findModule(pcChain.modules, moduleId)
             IN  pcChain' = IF i = 0 THEN pcChain
                            ELSE [pcChain EXCEPT !.modules[i].parameters =
                                     withParameter(@, paramName, value)]
          /\ Returns("setModuleParameter", 0)
          /\ UNCHANGED pcSavedModules
    /\ SnapshotFrame

\* loadTinyPreset(moduleId, preset)
LoadTinyPreset(moduleId, preset) ==
    /\ pcOps < MaxOps
    /\ pcOps' = pcOps + 1
    /\ \/ ThrowsOnUndefined("loadTinyPreset", 0)
       \/ /\ pcChain # Undefined
          /\ LET i == findModule(pcChain.modules, moduleId)
             IN  pcChain' = IF i = 0 THEN pcChain
                            ELSE [pcChain EXCEPT !.modules[i] =
                                     [withPreset(@, preset) EXCEPT !.parameters =
                                         assignParameters(@, preset.parameters)]]
          /\ Returns("loadTinyPreset", 0)
          /\ UNCHANGED pcSavedModules
    /\ SnapshotFrame

\* toggleEQBand(bandId)
ToggleEQBand(bandId) ==
    /\ pcOps < MaxOps
    /\ pcOps' = pcOps + 1
    /\ \/ ThrowsOnUndefined("toggleEQBand", 0)
       \/ /\ pcChain # Undefined
          /\ LET i == findModule(pcChain.modules, "eq")
             IN  pcChain' =
                    IF i = 0 THEN pcChain
                    ELSE LET b == findModule(pcChain.modules[i].bands, bandId)
                         IN  IF b = 0 THEN pcChain
                             ELSE [pcChain EXCEPT
                                      !.modules[i].bands[b].enabled = ~@]
          /\ Returns("toggleEQBand", 0)
          /\ UNCHANGED pcSavedModules
    /\ SnapshotFrame

\* saveSnapshot(slotIndex)
SaveSnapshot(slotIndex) ==
    /\ pcOps < MaxOps
    /\ pcOps' = pcOps + 1
    /\ \/ ThrowsOnUndefined("saveSnapshot", slotIndex)
       \/ /\ pcChain # Undefined
          /\ IF validSlot(pcChain, slotIndex)
             THEN /\ pcChain' = [pcChain EXCEPT !.snapshots[slotIndex + 1] =
                        [id |-> SlotIds[slotIndex + 1],
                         name |-> SnapshotNames[slotIndex + 1].name,
                         chain |-> jsonModules(pcChain.modules),
                         lufsReference |-> IntegratedLUFS]]
                  /\ pcSavedModules' =
                        [pcSavedModules EXCEPT ![slotIndex] = pcChain.modules]
             ELSE UNCHANGED <<pcChain, pcSavedModules>>
          /\ Returns("saveSnapshot", slotIndex)
    /\ SnapshotFrame

\* loadSnapshot(slotIndex); applyGainMatching sets the master gain only.
LoadSnapshot(slotIndex) ==
    /\ pcOps < MaxOps
    /\ pcOps' = pcOps + 1
    /\ \/ ThrowsOnUndefined("loadSnapshot", slotIndex)
       \/ /\ pcChain # Undefined
          /\ pcChain' =
                IF validSlot(pcChain, slotIndex)
                THEN [pcChain EXCEPT
                         !.modules = jsonModules(
                                        pcChain.snapshots[slotIndex + 1].chain),
                         !.currentSnapshot = slotIndex]
                ELSE pcChain
          /\ Returns("loadSnapshot", slotIndex)
          /\ UNCHANGED pcSavedModules
    /\ SnapshotFrame

SnapshotNext ==
    \/ Construct
    \/ \E presetData \in PresetDataInputs : ImportPreset(presetData)
    \/ \E moduleId \in ModuleIdInputs : ToggleModule(moduleId)
    \/ \E p \in ParameterInputs :
          SetModuleParameter(p.moduleId, p.paramName, p.value)
    \/ \E preset \in PresetInputs : LoadTinyPreset("hpf", preset)
    \/ \E bandId \in BandIdInputs : ToggleEQBand(bandId)
    \/ \E slotIndex \in SlotInputs : SaveSnapshot(slotIndex)
    \/ \E slotIndex \in SlotInputs : LoadSnapshot(slotIndex)

(***************************************************************************)
(* PreviewEngine and AudioEffectsEngine                                    *)
(*                                                                         *)
(* What a chain is built from (settings, role, gain match) is the          *)
(* MacroProcessor's and the EffectChain's business, modelled above; here a *)
(* chain object is its place in the audio graph.  The chain registered for *)
(* a stem in effectChains is                                               *)
(*   "wired"            the chain play() connected between the stem's      *)
(*                      source node and masterGain, intact                 *)
(*   "wiredDisposed"    that chain after dispose(): its input and output   *)
(*                      nodes are disconnected                             *)
(*   "detached"         a chain no source feeds and nothing connects to    *)
(*                      masterGain                                         *)
(*   "detachedDisposed" such a chain after dispose()                       *)
(*   "none"             no entry                                           *)
(***************************************************************************)

\* The stems of the model are 1..NumStems.
NumStems == 2

Stems == 1..NumStems

\* At most this many 'ended' events per stem are in flight.
MaxPendingEnded == 1

NoChains == [s \in Stems |-> "none"]

\* EffectChain.dispose() on the chain in the given state.
disposedChain(chain) ==
    CASE chain = "wired" -> "wiredDisposed"
      [] chain = "detached" -> "detachedDisposed"
      [] OTHER -> chain

\* AudioEffectsEngine.createEffectChain(stemId, ...): the existing chain is
\* disposed; the new chain is registered unless its constructor throws.
createEffectChain(effectChains, stemId, throws) ==
    [effectChains EXCEPT ![stemId] =
        IF throws THEN disposedChain(@) ELSE "detached"]

\* AudioEffectsEngine.removeEffectChain(stemId)
removeEffectChain(effectChains, stemId) ==
    [effectChains EXCEPT ![stemId] = "none"]

\* AudioEffectsEngine.dispose() that disposes the chains and keeps the map.
disposeEngine_NoClear(effectChains) ==
    [s \in Stems |-> disposedChain(effectChains[s])]

\* AudioEffectsEngine.dispose(): every chain disposed, the map cleared.
disposeEngine(effectChains) == NoChains

\* stopPlayback(): the source nodes it stops get an 'ended' event.
stoppedPending(sourceNodes, pendingEnded) ==
    [s \in Stems |-> IF s \in sourceNodes THEN pendingEnded[s] + 1
                     ELSE pendingEnded[s]]

CanStop == \A s \in peSourceNodes : pePendingEnded[s] < MaxPendingEnded

\* The stems the loop of play() completes before the constructor throws for
\* stem failAt (0: no failure): those before failAt in iteration order.
StartedBefore(stemBuffers, failAt) ==
    IF failAt = 0 THEN stemBuffers ELSE {s \in stemBuffers : s < failAt}

\* The chains after the loop of play(): a started stem's new chain is
\* registered and wired between its source node and masterGain.
playedChains(effectChains, stemBuffers, failAt) ==
    [s \in Stems |->
        IF s \in StartedBefore(stemBuffers, failAt) THEN "wired"
        ELSE IF s = failAt THEN disposedChain(effectChains[s])
        ELSE effectChains[s]]

\* The chains after the loop of updateSettings() over sourceNodes.
updatedChains(effectChains, sourceNodes, failAt) ==
    [s \in Stems |->
        IF s \in StartedBefore(sourceNodes, failAt) THEN "detached"
        ELSE IF s = failAt THEN disposedChain(effectChains[s])
        ELSE effectChains[s]]

Call(op, stem, count) == [op |-> op, stem |-> stem, count |-> count]

PreviewInit ==
    /\ peStemBuffers = {}
    /\ peLoadQueue = <<>>
    /\ peIsPlaying = FALSE
    /\ peSourceNodes = {}
    /\ peEffectChains = NoChains
    /\ pePendingEnded = [s \in Stems |-> 0]
    /\ peLastCall = Call("new", 0, 0)

\* The stem lists loadStems is called with: stems 1..n.
StemLists == {[i \in 1..n |-> i] : n \in 0..NumStems}

\* loadStems(stems) up to its first await.
LoadStems(stems) ==
    /\ peLoadQueue = <<>>
    /\ CanStop
    /\ peStemBuffers' = {}
    /\ peLoadQueue' = stems
    /\ peIsPlaying' = FALSE
    /\ pePendingEnded' = stoppedPending(peSourceNodes, pePendingEnded)
    /\ peSourceNodes' = {}
    /\ peEffectChains' = disposeEngine(peEffectChains)
    /\ peLastCall' = Call("loadStems", 0, 0)
    /\ PreviewFrame

\* One iteration of the loop of loadStems: the stem is fetched and decoded,
\* or that fails (or the stem has no path) and it is skipped.
LoadStemStep(ok) ==
    /\ peLoadQueue # <<>>
    /\ peStemBuffers' = IF ok THEN peStemBuffers \cup {Head(peLoadQueue)}
                        ELSE peStemBuffers
    /\ peLoadQueue' = Tail(peLoadQueue)
    /\ peLastCall' = Call("loadStep", Head(peLoadQueue), 0)
    /\ UNCHANGED <<peIsPlaying, peSourceNodes, peEffectChains, pePendingEnded>>
    /\ PreviewFrame

\* The body of play() after a possible stopPlayback(); failAt is the stem for
\* which createEffectChain throws (0: none), which ends play() there.
PlayBody(op, sourceNodes, effectChains, pendingEnded, failAt) ==
    /\ pePendingEnded' = pendingEnded
    /\ IF peStemBuffers = {}
       THEN /\ peSourceNodes' = sourceNodes
            /\ peEffectChains' = effectChains
            /\ peLastCall' = Call(op, 0, 0)
            /\ failAt = 0
       ELSE /\ peIsPlaying' = TRUE
            /\ peSourceNodes' = sourceNodes \cup StartedBefore(peStemBuffers, failAt)
            /\ peEffectChains' = playedChains(effectChains, peStemBuffers, failAt)
            /\ peLastCall' = Call(op, failAt, 0)
    /\ UNCHANGED <<peStemBuffers, peLoadQueue>>
    /\ PreviewFrame

\* play(settings, stems)
Play(failAt) ==
    /\ failAt \in {0} \cup peStemBuffers
    /\ IF peIsPlaying
       THEN /\ CanStop
            /\ IF peStemBuffers = {} THEN peIsPlaying' = FALSE ELSE TRUE
            /\ PlayBody("play", {}, disposeEngine(peEffectChains),
                        stoppedPending(peSourceNodes, pePendingEnded), failAt)
       ELSE /\ IF peStemBuffers = {} THEN peIsPlaying' = peIsPlaying ELSE TRUE
            /\ PlayBody("play", peSourceNodes, peEffectChains, pePendingEnded,
                        failAt)

\* updateSettings(newSettings, stems)
UpdateSettings(failAt) ==
    /\ failAt \in {0} \cup peSourceNodes
    /\ IF peIsPlaying /\ peSourceNodes # {}
       THEN peEffectChains' = updatedChains(peEffectChains, peSourceNodes, failAt)
       ELSE peEffectChains' = peEffectChains /\ failAt = 0
    /\ peLastCall' = Call("updateSettings", failAt, 0)
    /\ UNCHANGED <<peStemBuffers, peLoadQueue, peIsPlaying, peSourceNodes,
                   pePendingEnded>>
    /\ PreviewFrame

\* pause()
Pause ==
    /\ CanStop
    /\ IF peIsPlaying
       THEN /\ peIsPlaying' = FALSE
            /\ pePendingEnded' = stoppedPending(peSourceNodes, pePendingEnded)
            /\ peSourceNodes' = {}
            /\ peEffectChains' = disposeEngine(peEffectChains)
       ELSE UNCHANGED <<peIsPlaying, pePendingEnded, peSourceNodes, peEffectChains>>
    /\ peLastCall' = Call("pause", 0, Cardinality(peSourceNodes))
    /\ UNCHANGED <<peStemBuffers, peLoadQueue>>
    /\ PreviewFrame

\* stop()
Stop ==
    /\ CanStop
    /\ peIsPlaying' = FALSE
    /\ pePendingEnded' = stoppedPending(peSourceNodes, pePendingEnded)
    /\ peSourceNodes' = {}
    /\ peEffectChains' = disposeEngine(peEffectChains)
    /\ peLastCall' = Call("stop", 0, Cardinality(peSourceNodes))
    /\ UNCHANGED <<peStemBuffers, peLoadQueue>>
    /\ PreviewFrame

\* seekTo(time): when playing, stopPlayback() and play().
SeekTo(failAt) ==
    /\ failAt \in {0} \cup peStemBuffers
    /\ IF peIsPlaying
       THEN /\ CanStop
            /\ IF peStemBuffers = {} THEN peIsPlaying' = FALSE ELSE TRUE
            /\ PlayBody("seekTo", {}, disposeEngine(peEffectChains),
                        stoppedPending(peSourceNodes, pePendingEnded), failAt)
       ELSE /\ failAt = 0
            /\ peLastCall' = Call("seekTo", 0, 0)
            /\ UNCHANGED <<peStemBuffers, peLoadQueue, peIsPlaying,
                           peSourceNodes, peEffectChains, pePendingEnded>>
            /\ PreviewFrame

\* The onended handler of a stopped source node of the stem runs.
SourceEnded(stemId) ==
    /\ pePendingEnded[stemId] > 0
    /\ pePendingEnded' = [pePendingEnded EXCEPT ![stemId] = @ - 1]
    /\ IF peIsPlaying
       THEN /\ peSourceNodes' = peSourceNodes \ {stemId}
            /\ peEffectChains' = removeEffectChain(peEffectChains, stemId)
            /\ peLastCall' = Call("removeEffectChain", stemId, 0)
       ELSE /\ UNCHANGED <<peSourceNodes, peEffectChains>>
            /\ peLastCall' = Call("onended", stemId, 0)
    /\ UNCHANGED <<peStemBuffers, peLoadQueue, peIsPlaying>>
    /\ PreviewFrame

\* The source node of a playing stem reaches the end of its buffer and its
\* onended handler runs.
PlaybackEnds(stemId) ==
    /\ stemId \in peSourceNodes
    /\ peIsPlaying
    /\ peSourceNodes' = peSourceNodes \ {stemId}
    /\ peEffectChains' = removeEffectChain(peEffectChains, stemId)
    /\ peLastCall' = Call("removeEffectChain", stemId, 0)
    /\ UNCHANGED <<peStemBuffers, peLoadQueue, peIsPlaying, pePendingEnded>>
    /\ PreviewFrame

PreviewNext ==
    \/ \E stems \in StemLists : LoadStems(stems)
    \/ \E ok \in BOOLEAN : LoadStemStep(ok)
    \/ \E failAt \in {0} \cup Stems : Play(failAt)
    \/ \E failAt \in {0} \cup Stems : UpdateSettings(failAt)
    \/ Pause
    \/ Stop
    \/ \E failAt \in {0} \cup Stems : SeekTo(failAt)
    \/ \E stemId \in Stems : SourceEnded(stemId)
    \/ \E stemId \in Stems : PlaybackEnds(stemId)

PreviewIdle == PreviewInit

(***************************************************************************)
(* AudioManager                                                            *)
(***************************************************************************)

\* At most this many play() calls are suspended at their await.
MaxPendingPlay == 2

\* At most this many sources of one stem run outside the sources map.
MaxUntracked == 1

ManagerInit ==
    /\ amBuffers = {}
    /\ amGainNodes = {}
    /\ amStemStates = {}
    /\ amSources = {}
    /\ amIsPlaying = FALSE
    /\ amLoading = {}
    /\ amPlayPending = 0
    /\ amLastCall = Call("new", 0, 0)
    /\ amUntracked = [id \in Stems |-> 0]

ManagerIdle == ManagerInit

\* loadAudioFile(id, file) up to its first await.
LoadAudioFile(id) ==
    /\ id \notin amLoading
    /\ amLoading' = amLoading \cup {id}
    /\ amLastCall' = Call("loadAudioFile", id, 0)
    /\ UNCHANGED <<amBuffers, amGainNodes, amStemStates, amSources,
                   amIsPlaying, amPlayPending>>
    /\ UNCHANGED amUntracked
    /\ ManagerFrame

\* loadAudioFile(id, file) after decodeAudioData, or its catch block.
LoadAudioFileDone(id, ok) ==
    /\ id \in amLoading
    /\ amLoading' = amLoading \ {id}
    /\ IF ok
       THEN /\ amBuffers' = amBuffers \cup {id}
            /\ amGainNodes' = amGainNodes \cup {id}
            /\ amStemStates' = amStemStates \cup {id}
       ELSE UNCHANGED <<amBuffers, amGainNodes, amStemStates>>
    /\ amLastCall' = Call("loadAudioFileDone", id, 0)
    /\ UNCHANGED <<amSources, amIsPlaying, amPlayPending>>
    /\ UNCHANGED amUntracked
    /\ ManagerFrame

\* AudioManager.play() up to its await.
ManagerPlay ==
    /\ IF amIsPlaying
       THEN amPlayPending' = amPlayPending
       ELSE amPlayPending < MaxPendingPlay /\ amPlayPending' = amPlayPending + 1
    /\ amLastCall' = Call("play", 0, 0)
    /\ UNCHANGED <<amBuffers, amGainNodes, amStemStates, amSources,
                   amIsPlaying, amLoading>>
    /\ UNCHANGED amUntracked
    /\ ManagerFrame

\* AudioManager.play() after its await.  this.sources.clear() drops the
\* sources the map holds without stopping them, then one source per buffer
\* with a gain node is created, started and stored.
ManagerPlayResume ==
    /\ amPlayPending > 0
    /\ \A id \in amSources : amUntracked[id] < MaxUntracked
    /\ amPlayPending' = amPlayPending - 1
    /\ amUntracked' = [id \in Stems |->
                          amUntracked[id] + IF id \in amSources THEN 1 ELSE 0]
    /\ amSources' = amBuffers \cap amGainNodes
    /\ amIsPlaying' = TRUE
    /\ amLastCall' = Call("playResume", 0, 0)
    /\ UNCHANGED <<amBuffers, amGainNodes, amStemStates, amLoading>>
    /\ ManagerFrame

\* AudioManager.pause()
ManagerPause ==
    /\ IF amIsPlaying
       THEN amSources' = {} /\ amIsPlaying' = FALSE
       ELSE UNCHANGED <<amSources, amIsPlaying>>
    /\ amLastCall' = Call("pause", 0, Cardinality(amSources))
    /\ UNCHANGED <<amBuffers, amGainNodes, amStemStates, amLoading, amPlayPending>>
    /\ UNCHANGED amUntracked
    /\ ManagerFrame

\* AudioManager.stop()
ManagerStop ==
    /\ amSources' = {}
    /\ amIsPlaying' = FALSE
    /\ amLastCall' = Call("stop", 0, Cardinality(amSources))
    /\ UNCHANGED <<amBuffers, amGainNodes, amStemStates, amLoading, amPlayPending>>
    /\ UNCHANGED amUntracked
    /\ ManagerFrame

\* AudioManager.seekTo(time): when playing, pause() and play() up to its await.
ManagerSeekTo ==
    /\ IF amIsPlaying
       THEN /\ amPlayPending < MaxPendingPlay
            /\ amSources' = {}
            /\ amIsPlaying' = FALSE
            /\ amPlayPending' = amPlayPending + 1
       ELSE UNCHANGED <<amSources, amIsPlaying, amPlayPending>>
    /\ amLastCall' = Call("seekTo", 0, 0)
    /\ UNCHANGED <<amBuffers, amGainNodes, amStemStates, amLoading>>
    /\ UNCHANGED amUntracked
    /\ ManagerFrame

\* A map of the AudioManager after removeStem(id) deleted the key.
removedFrom(map, id) == map \ {id}

\* AudioManager.removeStem(id)
RemoveStem(id) ==
    /\ amSources' = amSources \ {id}
    /\ amGainNodes' = removedFrom(amGainNodes, id)
    /\ amBuffers' = removedFrom(amBuffers, id)
    /\ amStemStates' = removedFrom(amStemStates, id)
    /\ amLastCall' = Call("removeStem", id,
                          Cardinality({id} \cap (amSources \cup amBuffers)))
    /\ UNCHANGED <<amIsPlaying, amLoading, amPlayPending>>
    /\ UNCHANGED amUntracked
    /\ ManagerFrame

ManagerNext ==
    \/ \E id \in Stems : LoadAudioFile(id)
    \/ \E id \in Stems, ok \in BOOLEAN : LoadAudioFileDone(id, ok)
    \/ ManagerPlay
    \/ ManagerPlayResume
    \/ ManagerPause
    \/ ManagerStop
    \/ ManagerSeekTo
    \/ \E id \in Stems : RemoveStem(id)

(***************************************************************************)
(* StemAnalyzer: detectRole and calculateConfidence                        *)
(*                                                                         *)
(* Energies and ratios are in hundredths, frequencies in Hz, the dynamic   *)
(* range in dB, tempoPeaks is the length of the array.  Scores and         *)
(* confidences are the doubles the code accumulates, written in            *)
(* thousandths plus the rounding error of the double sum in units of one   *)
(* in the last place (0.6 + 0.3 is 0.8999999999999999, written 899).       *)
(***************************************************************************)

\* a + b on doubles, for the weights the classifier adds: the sum of the
\* decimals, except for the two sums that IEEE 754 does not round to the
\* double of the decimal sum: 0.6 + 0.3 = 0.8999999999999999 and
\* 0.4 + 0.2 = 0.6000000000000001.
FloatAdd(a, b) ==
    CASE a = 600 /\ b = 300 -> 899
      [] a = 400 /\ b = 200 -> 601
      [] OTHER -> a + b

\* if (cond) score += weight
AddIf(cond, score, weight) == IF cond THEN FloatAdd(score, weight) ELSE score

hasVocalFormants(features) ==
    /\ features.energyDistribution.mid > 25
    /\ features.energyDistribution.highMid > 20
    /\ features.energyDistribution.presence > 15

EnergyBands ==
    {"subBass", "bass", "lowMid", "mid", "highMid", "presence", "brilliance"}

isFullSpectrum(energyDistribution) ==
    Cardinality({b \in EnergyBands : energyDistribution[b] > 5}) >= 5

hasMultiplePercussiveElements(features) ==
    /\ Cardinality({b \in {"bass", "lowMid", "brilliance"} :
                       features.energyDistribution[b] > 20}) >= 2
    /\ features.tempoPeaks > 3

\* The scores object of detectRole after all the rules.
RoleScores(features) ==
    LET e == features.energyDistribution
        centroid == features.spectralCentroid
        perc == features.percussiveRatio
        dyn == features.dynamicRange
        f0 == features.fundamentalFreq
    IN  [kick |->
            AddIf(f0 >= 40 /\ f0 <= 80,
              AddIf(centroid < 200 /\ perc > 70,
                AddIf(e.subBass > 30 /\ e.bass > 40, 0, 600), 400), 300),
         snare |->
            AddIf(dyn > 20,
              AddIf(centroid >= 200 /\ centroid <= 1000 /\ perc > 60,
                AddIf(e.lowMid > 30 /\ e.presence > 30, 0, 500), 400), 200),
         hihat |->
            AddIf(centroid > 3000 /\ perc > 80,
              AddIf(e.brilliance > 40 /\ e.presence > 30, 0, 600), 400),
         bass |->
            AddIf(centroid < 300,
              AddIf(f0 >= 40 /\ f0 <= 200 /\ perc < 40,
                AddIf(e.bass > 50 /\ e.subBass > 20, 0, 600), 400), 300),
         vocal |->
            AddIf(hasVocalFormants(features),
              AddIf(centroid >= 500 /\ centroid <= 2000,
                AddIf(e.mid > 30 /\ e.highMid > 30, 0, 500), 400), 400),
         lead |->
            AddIf(features.harmonicRatio > 60,
              AddIf(centroid >= 400 /\ centroid <= 3000,
                AddIf(e.mid > 25 /\ e.highMid > 25, 0, 400), 300), 300),
         pad |->
            AddIf(isFullSpectrum(e),
              AddIf(perc < 20 /\ dyn < 10, 0, 500), 400),
         drums |->
            AddIf(hasMultiplePercussiveElements(features),
              AddIf(perc > 60 /\ dyn > 15, 0, 400), 500),
         percussion |-> 0,
         other |-> 100]

\* The key order of the scores object, which Object.entries follows.
ScoreOrder ==
    <<"kick", "snare", "hihat", "bass", "vocal", "lead", "pad", "drums",
      "percussion", "other">>

\* The forEach of detectRole from entry i on that replaces the role on a
\* score greater than or equal to the maximum so far.
RECURSIVE FindHighest_OrEqual(_, _, _, _)
FindHighest_OrEqual(i, scores, maxScore, detectedRole) ==
    IF i > Len(ScoreOrder) THEN detectedRole
    ELSE IF scores[ScoreOrder[i]] >= maxScore
         THEN FindHighest_OrEqual(i + 1, scores, scores[ScoreOrder[i]],
                                  ScoreOrder[i])
         ELSE FindHighest_OrEqual(i + 1, scores, maxScore, detectedRole)

\* The forEach of detectRole from entry i on: if (score > maxScore) ...
RECURSIVE FindHighest(_, _, _, _)
FindHighest(i, scores, maxScore, detectedRole) ==
    IF i > Len(ScoreOrder) THEN detectedRole
    ELSE IF scores[ScoreOrder[i]] > maxScore
         THEN FindHighest(i + 1, scores, scores[ScoreOrder[i]], ScoreOrder[i])
         ELSE FindHighest(i + 1, scores, maxScore, detectedRole)

\* detectRole where a later role takes over on an equal score.
detectRole_LastWins(features) ==
    FindHighest_OrEqual(1, RoleScores(features), 0, "other")

detectRole(features) == FindHighest(1, RoleScores(features), 0, "other")

\* Math.min(1.0, Math.max(0.1, confidence))
ClampConfidence(confidence) == Min(1000, Max(100, confidence))

\* calculateConfidence with the kick bonuses left out.
calculateConfidence_NoKickBonus(features, role) ==
    LET e == features.energyDistribution
    IN  ClampConfidence(
          CASE role = "kick" -> 500
            [] role = "snare" ->
                 AddIf(features.percussiveRatio > 70,
                   AddIf(e.lowMid > 30 /\ e.presence > 20, 500, 300), 200)
            [] role = "bass" ->
                 AddIf(features.spectralCentroid < 250,
                   AddIf(e.bass > 50, 500, 300), 200)
            [] role = "vocal" ->
                 AddIf(e.mid > 30,
                   AddIf(hasVocalFormants(features), 500, 400), 100)
            [] OTHER -> 300)

calculateConfidence(features, role) ==
    LET e == features.energyDistribution
    IN  ClampConfidence(
          CASE role = "kick" ->
                 AddIf(features.spectralCentroid < 150,
                   AddIf(e.subBass > 40, 500, 300), 200)
            [] role = "snare" ->
                 AddIf(features.percussiveRatio > 70,
                   AddIf(e.lowMid > 30 /\ e.presence > 20, 500, 300), 200)
            [] role = "bass" ->
                 AddIf(features.spectralCentroid < 250,
                   AddIf(e.bass > 50, 500, 300), 200)
            [] role = "vocal" ->
                 AddIf(e.mid > 30,
                   AddIf(hasVocalFormants(features), 500, 400), 100)
            [] OTHER -> 300)

getDefaultFeatures ==
    [spectralCentroid |-> 1000, dynamicRange |-> 20, fundamentalFreq |-> 440,
     harmonicRatio |-> 50, percussiveRatio |-> 30, tempoPeaks |-> 0,
     energyDistribution |->
         [subBass |-> 10, bass |-> 15, lowMid |-> 15, mid |-> 25,
          highMid |-> 15, presence |-> 10, brilliance |-> 10]]

\* The feature sets of the model: values on both sides of the thresholds of
\* the rules.
EnergyInputs ==
    [subBass : {10, 35, 50}, bass : {15, 45, 60}, lowMid : {15, 35},
     mid : {10, 35}, highMid : {15, 35}, presence : {10, 35},
     brilliance : {10, 45}]

FeatureInputs ==
    [spectralCentroid : {100, 250, 800, 2500, 3500},
     dynamicRange : {5, 18, 25},
     fundamentalFreq : {60, 440},
     harmonicRatio : {50, 70},
     percussiveRatio : {10, 30, 75, 90},
     tempoPeaks : {0, 4},
     energyDistribution : EnergyInputs]

ClassifierInit ==
    /\ saFeatures \in FeatureInputs
    /\ saCall = "none"
    /\ saRole = "other"
    /\ saConfidence = 0

ClassifierIdle ==
    /\ saFeatures = getDefaultFeatures
    /\ saCall = "none"
    /\ saRole = "other"
    /\ saConfidence = 0

\* role = detectRole(features); confidence = calculateConfidence(features, role)
Classify ==
    /\ saCall = "none"
    /\ saCall' = "classified"
    /\ saRole' = detectRole(saFeatures)
    /\ saConfidence' = calculateConfidence(saFeatures, detectRole(saFeatures))
    /\ UNCHANGED saFeatures
    /\ ClassifierFrame

ClassifierNext == Classify

(***************************************************************************)
(* StemAnalyzer.analyzeStems                                               *)
(*                                                                         *)
(* A stem of the argument is its id, the features extractAudioFeatures     *)
(* computes from its buffer, and whether the try block throws for it.      *)
(***************************************************************************)

\* The template generateReasoning fills in for the role.
generateReasoning(features, role) ==
    IF role \in {"kick", "snare", "bass", "vocal", "hihat"}
    THEN <<"reasoning", role>>
    ELSE <<"reasoning", "mixed">>

\* The element pushed in the catch block.
fallbackResult(stem) ==
    [stemId |-> stem.id, detectedRole |-> "other", confidence |-> 100,
     features |-> getDefaultFeatures,
     reasoning |-> <<"Analysis failed, assigned generic role">>]

\* The element pushed at the end of the try block.
analysisResult(stem) ==
    [stemId |-> stem.id,
     detectedRole |-> detectRole(stem.features),
     confidence |-> calculateConfidence(stem.features,
                                        detectRole(stem.features)),
     features |-> stem.features,
     reasoning |-> generateReasoning(stem.features,
                                     detectRole(stem.features))]

\* One iteration whose catch block pushes nothing.
pushResult_SkipFailed(results, stem) ==
    IF stem.fails THEN results ELSE Append(results, analysisResult(stem))

\* One iteration of the for loop: the try block or the catch block.
pushResult(results, stem) ==
    IF stem.fails THEN Append(results, fallbackResult(stem))
    ELSE Append(results, analysisResult(stem))

\* The feature set of spec scenario "classifier boundary".
KickFeatures ==
    [getDefaultFeatures EXCEPT
        !.spectralCentroid = 100, !.percussiveRatio = 90,
        !.fundamentalFreq = 60,
        !.energyDistribution.subBass = 50, !.energyDistribution.bass = 50]

\* A bright, very percussive stem.
HihatFeatures ==
    [getDefaultFeatures EXCEPT
        !.spectralCentroid = 3500, !.percussiveRatio = 90,
        !.energyDistribution.presence = 35,
        !.energyDistribution.brilliance = 45]

\* At most this many stems are analyzed in one call.
MaxAnalyzed == 3

AnalyzedFeatureInputs == {getDefaultFeatures, KickFeatures, HihatFeatures}

StemInputs ==
    UNION {[1..n -> [fails : BOOLEAN, features : AnalyzedFeatureInputs]] :
              n \in 0..MaxAnalyzed}

\* The audioBuffers array with ids 1..n.
WithIds(list) ==
    [i \in DOMAIN list |->
        [id |-> i, fails |-> list[i].fails, features |-> list[i].features]]

AnalyzeInit ==
    /\ asStems \in {WithIds(list) : list \in StemInputs}
    /\ asNext = 1
    /\ asResults = <<>>

AnalyzeIdle ==
    /\ asStems = <<>>
    /\ asNext = 1
    /\ asResults = <<>>

\* One iteration of the loop of analyzeStems.
AnalyzeStem ==
    /\ asNext <= Len(asStems)
    /\ asResults' = pushResult(asResults, asStems[asNext])
    /\ asNext' = asNext + 1
    /\ UNCHANGED asStems
    /\ AnalyzeFrame

AnalyzeNext == AnalyzeStem

(***************************************************************************)
(* StemAnalyzer.extractAudioFeatures: windows and energy distribution      *)
(*                                                                         *)
(* A buffer is its sample rate and the samples of channel 0, given as      *)
(* chunks of ChunkSamples samples of one amplitude each.  performFFT       *)
(* copies sample i of the window to the real part of bin i, so the         *)
(* magnitude of bin i is |sample i| and the band sums are sums of sample   *)
(* amplitudes over index ranges of the window; they are computed chunk by  *)
(* chunk.  Energies are fixed point with denominator EnergyUnit; NaN       *)
(* stands for the result of 0 / 0.                                         *)
(***************************************************************************)

EnergyUnit == 100 * 100

NaN == 0 - 1

ChunkSamples == 4 * 1000

\* The longest buffer of the model, in chunks.
MaxChunks == 6

BandOrder ==
    <<"subBass", "bass", "lowMid", "mid", "highMid", "presence", "brilliance">>

\* The upper frequency edge of each band but the last (the else branch).
BandEdges == <<60, 250, 500, 2000, 4000, 6000>>

bufferLength(buffer) == Len(buffer.chunks) * ChunkSamples

\* Math.min(10, Math.floor(buffer.duration * 2))
windowCount(buffer) ==
    Min(10, (bufferLength(buffer) * 2) \div buffer.sampleRate)

\* Math.floor(buffer.length / windowCount), used only when a window exists
windowSize(buffer) == bufferLength(buffer) \div windowCount(buffer)

\* The first bin index of a window of n samples that is not below the
\* frequency `edge`: frequency = i * sampleRate / (2 * n).
firstBinAtOrAbove(edge, n, sampleRate) ==
    Min(n, (2 * edge * n + sampleRate - 1) \div sampleRate)

\* The bins [from, to) of band k in a window of n samples.
bandBins(k, n, sampleRate) ==
    [from |-> IF k = 1 THEN 0
              ELSE firstBinAtOrAbove(BandEdges[k - 1], n, sampleRate),
     to   |-> IF k = Len(BandOrder) THEN n
              ELSE firstBinAtOrAbove(BandEdges[k], n, sampleRate)]

\* The sum of |sample| over the samples [from, to) of the buffer.
RECURSIVE magnitudeSum(_, _, _, _)
magnitudeSum(chunks, c, from, to) ==
    IF c > Len(chunks) THEN 0
    ELSE LET first == (c - 1) * ChunkSamples
             last  == c * ChunkSamples
             count == Max(0, Min(to, last) - Max(from, first))
         IN  Abs(chunks[c]) * count + magnitudeSum(chunks, c + 1, from, to)

\* calculateEnergyDistribution for a window that is normalised by `total`
\* only when the total is positive
normalizeBand(magnitude, total) ==
    IF total > 0 THEN (magnitude * EnergyUnit) \div total ELSE magnitude

\* calculateEnergyDistribution(windowData, sampleRate) for the window
\* [startSample, endSample) of the buffer
calculateEnergyDistribution(buffer, startSample, endSample) ==
    LET n == endSample - startSample
        bands == [k \in 1..Len(BandOrder) |->
                    LET bins == bandBins(k, n, buffer.sampleRate)
                    IN  magnitudeSum(buffer.chunks, 1, startSample + bins.from,
                                     startSample + bins.to)]
        total == magnitudeSum(buffer.chunks, 1, startSample, endSample)
    IN  [k \in 1..Len(BandOrder) |-> normalizeBand(bands[k], total)]

\* energyDistribution[key] /= windowCount
averageBand(sum, count) ==
    IF count = 0 THEN NaN ELSE sum \div count

AmplitudeInputs == {0, 1, 3}

BufferInputs ==
    [sampleRate : {8000, 16000},
     chunks : UNION {[1..n -> AmplitudeInputs] : n \in 1..MaxChunks}]

EnergyInit ==
    /\ edBuffer \in BufferInputs
    /\ edWindow = 0
    /\ edEnergy = [k \in 1..Len(BandOrder) |-> 0]
    /\ edDone = FALSE

EnergyIdle ==
    /\ edBuffer = [sampleRate |-> 8000, chunks |-> <<0>>]
    /\ edWindow = 0
    /\ edEnergy = [k \in 1..Len(BandOrder) |-> 0]
    /\ edDone = FALSE

EnergyFrame ==
    UNCHANGED <<macroVars, chainVars, curveVars, maskVars, duckVars,
                previewVars, managerVars, classifierVars, analyzeVars,
                heapVars, shaperVars,
                exciterVars,
                snapshotVars>>

\* One iteration of the window loop.
AnalyzeWindow ==
    /\ ~edDone
    /\ edWindow < windowCount(edBuffer)
    /\ LET startSample == edWindow * windowSize(edBuffer)
           endSample   == Min(startSample + windowSize(edBuffer),
                              bufferLength(edBuffer))
           windowEnergy == calculateEnergyDistribution(edBuffer, startSample,
                                                       endSample)
       IN  edEnergy' = [k \in 1..Len(BandOrder) |->
                           edEnergy[k] + windowEnergy[k]]
    /\ edWindow' = edWindow + 1
    /\ UNCHANGED <<edBuffer, edDone>>
    /\ EnergyFrame

\* The averaging after the loop.
AverageEnergy ==
    /\ ~edDone
    /\ edWindow >= windowCount(edBuffer)
    /\ edEnergy' = [k \in 1..Len(BandOrder) |->
                       averageBand(edEnergy[k], windowCount(edBuffer))]
    /\ edDone' = TRUE
    /\ UNCHANGED <<edBuffer, edWindow>>
    /\ EnergyFrame

EnergyNext == AnalyzeWindow \/ AverageEnergy

(***************************************************************************)
(* Claims about the StemAnalyzer                                           *)
(***************************************************************************)

\* C17: a feature set with subBass > 0.4, bass > 0.4, centroid < 150,
\* percussiveRatio > 0.7 and fundamental in [40,80] is classified as kick
\* with confidence >= 0.8.
C17_KickBoundary ==
    (/\ saCall = "classified"
     /\ saFeatures.energyDistribution.subBass > 40
     /\ saFeatures.energyDistribution.bass > 40
     /\ saFeatures.spectralCentroid < 150
     /\ saFeatures.percussiveRatio > 70
     /\ saFeatures.fundamentalFreq >= 40 /\ saFeatures.fundamentalFreq <= 80)
        => saRole = "kick" /\ saConfidence >= 800

\* A kick-like feature set that also fires the bass, snare and drums rules
\* was classified as kick with confidence 1.0.
C17_Witness ==
    /\ saCall = "classified"
    /\ saFeatures.energyDistribution.subBass = 50
    /\ saFeatures.energyDistribution.bass = 60
    /\ saFeatures.spectralCentroid = 100
    /\ saFeatures.percussiveRatio = 90
    /\ saFeatures.fundamentalFreq = 60
    /\ RoleScores(saFeatures).bass = 899
    /\ RoleScores(saFeatures).drums > 0
    /\ saRole = "kick" /\ saConfidence = 1000

\* The position of a role in the key order of the scores.
OrderOf(role) == CHOOSE i \in DOMAIN ScoreOrder : ScoreOrder[i] = role

\* C18: the role returned by detectRole has an accumulated score greater
\* than or equal to that of every other role; it is other exactly if no
\* other role has a score above the baseline 0.1; among the roles with the
\* maximal score the earliest in the key order is returned.
C18_MaxScoreWins ==
    saCall = "classified"
        => LET scores == RoleScores(saFeatures)
               roles == DOMAIN scores
           IN  /\ \A r \in roles : scores[saRole] >= scores[r]
               /\ (saRole = "other")
                     <=> (\A r \in roles \ {"other"} : scores[r] <= 100)
               /\ \A r \in roles :
                     scores[r] = scores[saRole] => OrderOf(saRole) <= OrderOf(r)

\* Kick and hihat both have the maximal score 0.6 and kick, the earlier one,
\* was returned.
C18_Witness ==
    /\ saCall = "classified"
    /\ RoleScores(saFeatures).kick = 600
    /\ RoleScores(saFeatures).hihat = 600
    /\ \A r \in DOMAIN RoleScores(saFeatures) :
          RoleScores(saFeatures)[r] <= 600
    /\ saRole = "kick"

\* C19: for every feature set and winning role the confidence is at least
\* the base 0.5 (base plus non-negative bonuses, clamped to [0.1, 1.0]).
C19_ConfidenceAtLeastBase ==
    saCall = "classified" => saConfidence >= 500 /\ saConfidence <= 1000

\* C20: analyzeStems pushes exactly one result per stem in input order; a
\* stem that fails gets role other, confidence 0.1, the default features and
\* the failure reasoning; a stem that does not fail gets the result that
\* depends on its own features only; the loop goes on to the end of the list.
C20_NeverAborts ==
    /\ Len(asResults) = asNext - 1
    /\ asNext <= Len(asStems) => ENABLED AnalyzeStem
    /\ \A i \in DOMAIN asResults :
          /\ asResults[i].stemId = asStems[i].id
          /\ asStems[i].fails
                => /\ asResults[i].detectedRole = "other"
                   /\ asResults[i].confidence = 100
                   /\ asResults[i].features = getDefaultFeatures
                   /\ asResults[i].reasoning =
                          <<"Analysis failed, assigned generic role">>
          /\ ~asStems[i].fails
                => /\ asResults[i].detectedRole = detectRole(asStems[i].features)
                   /\ asResults[i].confidence =
                          calculateConfidence(asStems[i].features,
                                              asResults[i].detectedRole)
                   /\ asResults[i].features = asStems[i].features

\* Three stems were analyzed, the second failed, and the kick before it and
\* the hihat after it have their own results.
C20_Witness ==
    /\ Len(asStems) = 3 /\ Len(asResults) = 3
    /\ ~asStems[1].fails /\ asStems[2].fails /\ ~asStems[3].fails
    /\ asStems[1].features = KickFeatures
    /\ asStems[3].features = HihatFeatures
    /\ asResults[1].detectedRole = "kick"
    /\ asResults[2].detectedRole = "other" /\ asResults[2].confidence = 100
    /\ asResults[3].detectedRole = "hihat"

(***************************************************************************)
(* Claims about playback                                                   *)
(***************************************************************************)

\* C2: after updateSettings returned while playback is running, the chain
\* registered for every playing stem is the intact chain wired between the
\* stem's source node and the master gain.
C2_UpdateKeepsLiveChain ==
    (peLastCall.op = "updateSettings" /\ peLastCall.stem = 0 /\ peIsPlaying)
        => \A s \in peSourceNodes : peEffectChains[s] = "wired"

\* C5: after a play() in which the construction of one stem's chain failed,
\* every other loaded stem has a started source node and a registered chain.
C5_FailureIsolated ==
    (peLastCall.op = "play" /\ peLastCall.stem # 0)
        => \A s \in peStemBuffers \ {peLastCall.stem} :
               s \in peSourceNodes /\ peEffectChains[s] # "none"

\* C6: after PreviewEngine.stop() or pause() returned, isPlaying is false,
\* sourceNodes is empty and the effects engine holds no chain; after
\* removeEffectChain(id) the engine has no chain for id; after
\* AudioManager.removeStem(id), id is in none of sources, gainNodes, buffers
\* and stemStates.
C6_NoDanglingState ==
    /\ peLastCall.op \in {"stop", "pause"}
          => /\ ~peIsPlaying
             /\ peSourceNodes = {}
             /\ peEffectChains = NoChains
    /\ peLastCall.op = "removeEffectChain"
          => peEffectChains[peLastCall.stem] = "none"
    /\ amLastCall.op = "removeStem"
          => amLastCall.stem \notin
                 (amSources \cup amGainNodes \cup amBuffers \cup amStemStates)

\* stop() returned after stopping the sources of all stems, and before that
\* removeStem(id) had removed a loaded stem.
C6_Witness ==
    /\ peLastCall = Call("stop", 0, NumStems)
    /\ peEffectChains = NoChains /\ peSourceNodes = {} /\ ~peIsPlaying
    /\ amLastCall.op = "removeStem" /\ amLastCall.count = 1
    /\ amLastCall.stem \notin amBuffers

\* C25: the 'ended' event of a source node that stopPlayback stopped does
\* not disturb a later playback: when it is delivered while a restarted
\* playback (seekTo or play while playing) is running, the stem keeps its
\* new source node in sourceNodes and its new effect chain registered and
\* connected.
C25_StaleEndedHarmless ==
    [][\A s \in Stems :
          (/\ SourceEnded(s)
           /\ peIsPlaying
           /\ s \in peStemBuffers
           /\ s \in peSourceNodes
           /\ peEffectChains[s] = "wired")
          => (s \in peSourceNodes' /\ peEffectChains'[s] = "wired")]_vars

\* C26: under every interleaving of play, pause, stop and seekTo (play
\* suspended at its await), every source that was started and not stopped is
\* held by sources, so each stem has at most one sounding source, and no
\* source sounds while isPlaying is false: stop() and pause() leave nothing
\* playing.
C26_SourcesTracked ==
    /\ \A id \in Stems : amUntracked[id] = 0
    /\ ~amIsPlaying => amSources = {}

(***************************************************************************)
(* Claims about the MacroProcessor (checked under SpecMacro)               *)
(***************************************************************************)

InRange(v) == v >= 0 /\ v <= 100

ClampMacro(v) == Min(100, Max(0, v))

ClampedSettings(settings) ==
    [settings EXCEPT !.punch = ClampMacro(@), !.warmth = ClampMacro(@),
                     !.clarity = ClampMacro(@), !.air = ClampMacro(@),
                     !.width = ClampMacro(@)]

\* C3: out-of-range macro input is clamped at the mapper boundary: the result
\* of processSettingsToChain for any settings is the result for the settings
\* with punch, warmth, clarity, air and width clamped to [0,100].
C3_ClampedAtMapper ==
    mpCall = "processSettingsToChain"
        => mpResult = processSettingsToChain(ClampedSettings(mpSettings), mpRole)

\* C7: for role kick and punch in [0,100], getPerRoleChain returns
\* compression.attack <= 5 ms and compression.ratio >= 3.
C7_KickOverride ==
    (mpCall = "getPerRoleChain" /\ mpRole = "kick" /\ InRange(mpSettings.punch))
        => /\ mpResult.compression.attack <= Num(5, 1)
           /\ mpResult.compression.ratio >= Num(3, 1)

\* Kick at punch = 100: the glue minimum made the base attack 20 ms and the
\* punch mapping made the base ratio 2.1, the override returned 5 ms and 3.
C7_Witness ==
    /\ mpCall = "getPerRoleChain" /\ mpRole = "kick" /\ mpSettings.punch = 100
    /\ processSettingsToChain(mpSettings, mpRole).compression.attack = Num(20, 1)
    /\ processSettingsToChain(mpSettings, mpRole).compression.ratio = Num(21, 10)
    /\ mpResult.compression.attack = Num(5, 1)
    /\ mpResult.compression.ratio = Num(3, 1)

\* C8: for role bass and width in [0,100], the stereoWidth.width returned by
\* getPerRoleChain is at most 100 percent.
C8_BassWidth ==
    (mpCall = "getPerRoleChain" /\ mpRole = "bass" /\ InRange(mpSettings.width))
        => mpResult.stereoWidth.width <= Num(100, 1)

\* Bass at width = 100: the base mapping gives 150 percent, the result 100.
C8_Witness ==
    /\ mpCall = "getPerRoleChain" /\ mpRole = "bass" /\ mpSettings.width = 100
    /\ processSettingsToChain(mpSettings, mpRole).stereoWidth.width = Num(150, 1)
    /\ mpResult.stereoWidth.width = Num(100, 1)

\* C11: the result of the mapper has the limiter enabled with its ceiling
\* equal to settings.peakCeiling, and release and lookahead at their defaults
\* whatever the macros are.
C11_LimiterFromSettings ==
    mpCall # "none"
        => /\ mpResult.limiterSettings.enabled
           /\ mpResult.limiterSettings.ceiling = mpSettings.peakCeiling
           /\ mpResult.limiterSettings.release = getDefaultLimiter.release
           /\ mpResult.limiterSettings.lookahead = getDefaultLimiter.lookahead

\* C12: for punch > 0, processSettingsToChain returns attack >= 20 ms,
\* release >= 100 ms, saturation drive >= 0.5 and character tape; otherwise
\* the compression and saturation are those of the punch and warmth rules.
C12_Glue ==
    mpCall = "processSettingsToChain"
        => IF mpSettings.punch > 0
           THEN /\ mpResult.compression.attack >= Num(20, 1)
                /\ mpResult.compression.release >= Num(100, 1)
                /\ mpResult.saturation.drive >= Num(5, 10)
                /\ mpResult.saturation.character = "tape"
           ELSE /\ mpResult.compression = getDefaultCompression
                /\ mpResult.saturation = WarmthSaturation(mpSettings)

\* A percussive stem at punch = 100 and warmth = 60: the punch rule asks for
\* a 10 ms attack and the warmth rule for tube; the result has 20 ms and tape.
C12_Witness ==
    /\ mpCall = "processSettingsToChain"
    /\ mpSettings.punch = 100 /\ mpSettings.warmth = 60 /\ mpRole = "snare"
    /\ PunchCompression(mpSettings, mpRole).attack = Num(10, 1)
    /\ WarmthSaturation(mpSettings).character = "tube"
    /\ mpResult.compression.attack = Num(20, 1)
    /\ mpResult.saturation.character = "tape"

\* The gain of the 8000 Hz high-shelf band of an EQ list, 0 when absent.
ShelfGain(eqCurve) ==
    LET idx == {i \in DOMAIN eqCurve : /\ eqCurve[i].frequency = 8000
                                       /\ eqCurve[i].type = "highshelf"}
    IN  IF idx = {} THEN 0 ELSE eqCurve[CHOOSE i \in idx : TRUE].gain

\* C13: with the role and the other macros fixed, a larger clarity in [0,100]
\* never gives a smaller 8000 Hz shelf gain, and a larger punch in [0,100]
\* never gives a smaller compression ratio.
C13_Monotone ==
    mpCall = "processSettingsToChain"
        => /\ InRange(mpSettings.clarity)
              => \A c2 \in {c \in ClarityInputs : InRange(c)} :
                    c2 >= mpSettings.clarity
                    => ShelfGain(mpResult.eqCurve) <=
                       ShelfGain(processSettingsToChain(
                           [mpSettings EXCEPT !.clarity = c2], mpRole).eqCurve)
           /\ InRange(mpSettings.punch)
              => \A p2 \in {q \in PunchInputs : InRange(q)} :
                    p2 >= mpSettings.punch
                    => mpResult.compression.ratio <=
                       processSettingsToChain(
                           [mpSettings EXCEPT !.punch = p2], mpRole)
                           .compression.ratio

\* Clarity 25 (shelf +1 dB) below clarity 100 (+4 dB), punch 4 (ratio 1.332)
\* below punch 100 (2.1).
C13_Witness ==
    /\ mpCall = "processSettingsToChain"
    /\ mpSettings.clarity = 25 /\ mpSettings.punch = 4
    /\ ShelfGain(mpResult.eqCurve) = Num(1, 1)
    /\ mpResult.compression.ratio = Num(1332, 1000)
    /\ ShelfGain(processSettingsToChain(
           [mpSettings EXCEPT !.clarity = 100], mpRole).eqCurve) = Num(4, 1)

\* C14: for the all-neutral settings and no role the mapper returns no EQ
\* band, compression, saturation and stereo width disabled, and the limiter
\* enabled with the default ceiling.
C14_Neutral ==
    (/\ mpCall = "processSettingsToChain"
     /\ mpRole = NoRole
     /\ mpSettings.punch = 0 /\ mpSettings.warmth = 0 /\ mpSettings.clarity = 0
     /\ mpSettings.air = 0 /\ mpSettings.width = 0 /\ mpSettings.reverb = 0)
        => /\ mpResult.eqCurve = <<>>
           /\ ~mpResult.compression.enabled
           /\ ~mpResult.saturation.enabled
           /\ ~mpResult.stereoWidth.enabled
           /\ mpResult.limiterSettings.enabled
           /\ mpResult.limiterSettings.ceiling = getDefaultLimiter.ceiling

\* The mapper was called with the all-neutral settings and no role.
C14_Witness ==
    /\ mpCall = "processSettingsToChain"
    /\ mpRole = NoRole
    /\ mpSettings = getDefaultSettings
    /\ mpResult.reverbSend = 0
    /\ Len(mpResult.eqCurve) = 0

\* The bands of an EQ list at the frequency and of the type.
BandsAt(eqCurve, frequency, type) ==
    {i \in DOMAIN eqCurve : /\ eqCurve[i].frequency = frequency
                            /\ eqCurve[i].type = type}

\* C15: for clarity c in (0,100] the EQ list of processSettingsToChain has
\* exactly one high-shelf band at 8000 Hz, enabled, with gain 4c/100 and Q
\* 0.7, and a bell band at 350 Hz exactly if c > 50, with gain -2(c-50)/50
\* and Q 1.2.
C15_ClarityBands ==
    (/\ mpCall = "processSettingsToChain"
     /\ mpSettings.clarity > 0 /\ mpSettings.clarity <= 100)
        => LET eq == mpResult.eqCurve
               c == mpSettings.clarity
               shelf == BandsAt(eq, 8000, "highshelf")
               bell == BandsAt(eq, 350, "bell")
           IN  /\ Cardinality(shelf) = 1
               /\ \A i \in shelf : /\ eq[i].enabled
                                   /\ eq[i].gain = Num(4 * c, 100)
                                   /\ eq[i].q = Num(7, 10)
               /\ (bell # {}) <=> (c > 50)
               /\ Cardinality(bell) <= 1
               /\ \A i \in bell : /\ eq[i].gain = Num(0 - 2 * (c - 50), 50)
                                  /\ eq[i].q = Num(12, 10)
                                  /\ eq[i].enabled

\* Clarity 100: the shelf has +4.0 dB and the 350 Hz bell -2.0 dB.
C15_Witness ==
    /\ mpCall = "processSettingsToChain"
    /\ mpSettings.clarity = 100
    /\ \E i \in BandsAt(mpResult.eqCurve, 8000, "highshelf") :
          mpResult.eqCurve[i].gain = Num(4, 1)
    /\ \E i \in BandsAt(mpResult.eqCurve, 350, "bell") :
          mpResult.eqCurve[i].gain = Num(-2, 1)

\* C16: the EQ list of getPerRoleChain(role, settings) contains the EQ list
\* of processSettingsToChain(settings, role) as a contiguous run, the
\* role-specific bands being before or after it.
C16_BaseBandsKept ==
    mpCall = "getPerRoleChain"
        => LET base == processSettingsToChain(mpSettings, mpRole).eqCurve
               enhanced == mpResult.eqCurve
           IN  /\ Len(enhanced) >= Len(base)
               /\ \E k \in 0..(Len(enhanced) - Len(base)) :
                     SubSeq(enhanced, k + 1, k + Len(base)) = base

\* Drums with air = 75: the base list ends with the 14 kHz air shelf and the
\* enhancer appended the 10 kHz cymbal band after it.
C16_Witness ==
    /\ mpCall = "getPerRoleChain" /\ mpRole = "drums" /\ mpSettings.air = 75
    /\ mpSettings.clarity = 60
    /\ Len(mpResult.eqCurve) =
           Len(processSettingsToChain(mpSettings, mpRole).eqCurve) + 1
    /\ mpResult.eqCurve[Len(mpResult.eqCurve)].frequency = 10000
    /\ mpResult.eqCurve[Len(mpResult.eqCurve) - 1].frequency = 14000

CurveTolerance == CurveScale \div 1000

\* C9: for drive = 0 and each character tube, tape, transistor the curve is
\* the identity y = x at every sampled x.
C9_IdentityAtZeroDrive ==
    (scDrive = 0 /\ scCharacter \in {"tube", "tape", "transistor"})
        => \A k \in 1..Len(scCurve) :
               Abs(scCurve[k] - SampleX(PointIndex(k))) <= CurveTolerance

(***************************************************************************)
(* Claims about the MaskingAnalyzer (checked under SpecMasking)            *)
(***************************************************************************)

\* No frequency bin where both stems have energy.
DisjointSpectra ==
    \A b \in 1..MaskBins :
        \E st \in MaskStems : maSpectra[st][b] = 0

\* C10: for two stems with fully disjoint spectra every entry of the
\* maskingMatrix is 0 and conflictLevel is low.
C10_DisjointSpectraNoMasking ==
    (maCalled /\ DisjointSpectra)
        => /\ \A r \in 1..Len(maResult.maskingMatrix) :
                  \A c \in 1..Len(maResult.maskingMatrix[r]) :
                      maResult.maskingMatrix[r][c] = 0
           /\ maResult.conflictLevel = "low"

(***************************************************************************)
(* Claims about the SidechainDucker (checked under SpecDucker)             *)
(***************************************************************************)

\* C1: after disable() on a ducker with source and target connected and
\* ducking active, and until enable() is called again, the last gain target
\* scheduled on the target is 1.0 (no follower tick schedules a lower one)
\* and the gain never exceeds 1.0.
C1_DisableRestoresUnity ==
    dkRestoring => (dkGainTarget = Unity /\ dkGain <= Unity)

C28_ReconnectKeepsTarget ==
    [][(dkSource /\ dkTarget /\ ConnectSource) =>
          (dkTarget' /\ (dkEnabled => dkIsActive'))]_vars

(***************************************************************************)
(* Claims about the feature extraction (checked under SpecEnergy)          *)
(***************************************************************************)

RECURSIVE SumOf(_, _)
SumOf(values, k) == IF k = 0 THEN 0 ELSE values[k] + SumOf(values, k - 1)

\* Each band is rounded down once per window and once by the averaging.
EnergyTolerance == 2 * 7

\* C23: for every buffer of at least one sample, whatever its duration and
\* content, the seven energyDistribution values of the extracted features
\* are each >= 0 and sum to 1.
C23_EnergySumsToOne ==
    edDone =>
        /\ \A k \in 1..Len(BandOrder) : edEnergy[k] # NaN /\ edEnergy[k] >= 0
        /\ Abs(SumOf(edEnergy, Len(BandOrder)) - EnergyUnit) <= EnergyTolerance

(***************************************************************************)
(* Claims about the HarmonicExciter (checked under SpecExciter)            *)
(***************************************************************************)

\* C24: after any sequence of setParameter calls the curve active in each
\* band is the one for that band's current drive, that band's current
\* harmonic type and the current character (whatever the order of the
\* calls; setting one of the three keeps the other two in effect).
C24_CurveFromCurrentParameters ==
    \A b \in ExciterBands :
        heCurve[b] =
            updateSaturationCurve(
                heParameters[b].drive * (CurveScale \div 100),
                heParameters[b].harmonics, heParameters.character)

(***************************************************************************)
(* Claims about the TransientShaper (checked under SpecShaper)             *)
(***************************************************************************)

\* C27: after TransientShaper.dispose() no further iteration of the
\* follower's detection loop runs and onTransientDetected is not invoked
\* again.
C27_DisposeStopsDetection ==
    [][tsDisposed =>
          (tsLoopRuns' = tsLoopRuns /\ tsDetected' = tsDetected)]_vars

\* The SidechainDucker's half of C27: after dispose() its monitor timer is
\* cleared and onLevelChange is not invoked again.
DuckerDisposeStopsMonitor ==
    [][~dkTimer => (~dkTimer' /\ dkCalls' = dkCalls)]_vars

(***************************************************************************)
(* Claims about the ProcessingChainManager (checked under SpecSnapshots)   *)
(***************************************************************************)

\* C29: constructing a ProcessingChainManager completes without error and
\* yields the six modules hpf, eq, compressor, saturator, stereo_width,
\* limiter in that order with only eq and limiter enabled, currentSnapshot 0
\* and the three snapshots A, B, C, each holding a copy of that module list.
C29_ConstructorYieldsDefaultChain ==
    pcLastCall.op = "new" =>
        /\ pcThrown = "none"
        /\ pcChain # Undefined
        /\ [i \in DOMAIN pcChain.modules |-> pcChain.modules[i].id]
              = <<"hpf", "eq", "compressor", "saturator", "stereo_width",
                  "limiter">>
        /\ {pcChain.modules[i].id : i \in {j \in DOMAIN pcChain.modules :
                                              pcChain.modules[j].enabled}}
              = {"eq", "limiter"}
        /\ pcChain.currentSnapshot = 0
        /\ [i \in DOMAIN pcChain.snapshots |-> pcChain.snapshots[i].name]
              = <<"Snapshot A", "Snapshot B", "Snapshot C">>
        /\ \A i \in DOMAIN pcChain.snapshots :
              pcChain.snapshots[i].chain = pcChain.modules

InitMacro ==
    MacroInit /\ ChainIdle /\ CurveIdle /\ MaskIdle /\ DuckIdle /\ PreviewIdle
    /\ ManagerIdle /\ ClassifierIdle /\ AnalyzeIdle
    /\ HeapIdle
    /\ ShaperIdle
    /\ EnergyIdle
    /\ ExciterIdle
    /\ SnapshotIdle

SpecMacro == InitMacro /\ [][MacroNext]_vars

InitChain ==
    ChainInit /\ MacroIdle /\ CurveIdle /\ MaskIdle /\ DuckIdle /\ PreviewIdle
    /\ ManagerIdle /\ ClassifierIdle /\ AnalyzeIdle
    /\ HeapIdle
    /\ ShaperIdle
    /\ EnergyIdle
    /\ ExciterIdle
    /\ SnapshotIdle

SpecChain == InitChain /\ [][ChainNext]_vars

InitCurve ==
    CurveInit /\ MacroIdle /\ ChainIdle /\ MaskIdle /\ DuckIdle /\ PreviewIdle
    /\ ManagerIdle /\ ClassifierIdle /\ AnalyzeIdle
    /\ HeapIdle
    /\ ShaperIdle
    /\ EnergyIdle
    /\ ExciterIdle
    /\ SnapshotIdle

SpecCurve == InitCurve /\ [][CurveNext]_vars

InitMasking ==
    MaskInit /\ MacroIdle /\ ChainIdle /\ CurveIdle /\ DuckIdle /\ PreviewIdle
    /\ ManagerIdle /\ ClassifierIdle /\ AnalyzeIdle
    /\ HeapIdle
    /\ ShaperIdle
    /\ EnergyIdle
    /\ ExciterIdle
    /\ SnapshotIdle

SpecMasking == InitMasking /\ [][MaskNext]_vars

InitDucker ==
    DuckInit /\ MacroIdle /\ ChainIdle /\ CurveIdle /\ MaskIdle /\ PreviewIdle
    /\ ManagerIdle /\ ClassifierIdle /\ AnalyzeIdle
    /\ HeapIdle
    /\ ShaperIdle
    /\ EnergyIdle
    /\ ExciterIdle
    /\ SnapshotIdle

SpecDucker == InitDucker /\ [][DuckNext]_vars

InitPlayback ==
    PreviewInit /\ ManagerInit /\ MacroIdle /\ ChainIdle /\ CurveIdle
    /\ MaskIdle /\ DuckIdle /\ ClassifierIdle /\ AnalyzeIdle
    /\ HeapIdle
    /\ ShaperIdle
    /\ EnergyIdle
    /\ ExciterIdle
    /\ SnapshotIdle

PlaybackNext == PreviewNext \/ ManagerNext

SpecPlayback == InitPlayback /\ [][PlaybackNext]_vars

InitClassifier ==
    ClassifierInit /\ AnalyzeIdle /\ MacroIdle /\ ChainIdle /\ CurveIdle
    /\ MaskIdle /\ DuckIdle /\ PreviewIdle /\ ManagerIdle
    /\ HeapIdle
    /\ ShaperIdle
    /\ EnergyIdle
    /\ ExciterIdle
    /\ SnapshotIdle

SpecClassifier == InitClassifier /\ [][ClassifierNext]_vars

InitAnalyze ==
    AnalyzeInit /\ ClassifierIdle /\ MacroIdle /\ ChainIdle /\ CurveIdle
    /\ MaskIdle /\ DuckIdle /\ PreviewIdle /\ ManagerIdle
    /\ HeapIdle
    /\ ShaperIdle
    /\ EnergyIdle
    /\ ExciterIdle
    /\ SnapshotIdle

SpecAnalyze == InitAnalyze /\ [][AnalyzeNext]_vars

InitHeap ==
    HeapInit /\ MacroIdle /\ ChainIdle /\ CurveIdle /\ MaskIdle /\ DuckIdle
    /\ PreviewIdle /\ ManagerIdle /\ ClassifierIdle /\ AnalyzeIdle
    /\ ShaperIdle
    /\ EnergyIdle
    /\ ExciterIdle
    /\ SnapshotIdle

SpecHeap == InitHeap /\ [][HeapNext]_vars

InitShaper ==
    ShaperInit /\ MacroIdle /\ ChainIdle /\ CurveIdle /\ MaskIdle /\ DuckIdle
    /\ PreviewIdle /\ ManagerIdle /\ ClassifierIdle /\ AnalyzeIdle
    /\ HeapIdle
    /\ EnergyIdle
    /\ ExciterIdle
    /\ SnapshotIdle

SpecShaper == InitShaper /\ [][ShaperNext]_vars

InitEnergy ==
    EnergyInit /\ MacroIdle /\ ChainIdle /\ CurveIdle /\ MaskIdle /\ DuckIdle
    /\ PreviewIdle /\ ManagerIdle /\ ClassifierIdle /\ AnalyzeIdle
    /\ HeapIdle /\ ShaperIdle
    /\ ExciterIdle
    /\ SnapshotIdle

SpecEnergy == InitEnergy /\ [][EnergyNext]_vars

InitExciter ==
    ExciterInit /\ MacroIdle /\ ChainIdle /\ CurveIdle /\ MaskIdle /\ DuckIdle
    /\ PreviewIdle /\ ManagerIdle /\ ClassifierIdle /\ AnalyzeIdle
    /\ HeapIdle /\ ShaperIdle /\ EnergyIdle
    /\ SnapshotIdle

SpecExciter == InitExciter /\ [][ExciterNext]_vars

InitSnapshots ==
    SnapshotInit /\ MacroIdle /\ ChainIdle /\ CurveIdle /\ MaskIdle /\ DuckIdle
    /\ PreviewIdle /\ ManagerIdle /\ ClassifierIdle /\ AnalyzeIdle
    /\ HeapIdle /\ ShaperIdle /\ EnergyIdle /\ ExciterIdle

SpecSnapshots == InitSnapshots /\ [][SnapshotNext]_vars

====
